---- MODULE Spec2Model ----
(***************************************************************************)
(* RACI SaaS platform: the assignment router behind matrixProcedure, the   *)
(* member and organization routers behind adminProcedure, the access       *)
(* resolver verifyOrganizationAccess, the RACI pre-commit validator and    *)
(* the audit sink.  The relational store is the set of rows of each table. *)
(***************************************************************************)
EXTENDS Integers, Sequences, FiniteSets, TLC

VARIABLES organizations, members, consultancyAccess, matrices, tasks,
          assignments, assignmentSeq, last, procs

vars == <<organizations, members, consultancyAccess, matrices, tasks,
          assignments, assignmentSeq, last, procs>>

(***************************************************************************)
(* Bounds of the model.                                                    *)
(***************************************************************************)
MaxAssignments == 2
MaxBatch == 2

(***************************************************************************)
(* Universe of identifiers.                                                *)
(***************************************************************************)
Null == "null"
Now == "now"
NoSession == "anonymous"
Users == {"u1", "u2"}
Sessions == Users \cup {NoSession}
OrgIds == {"oA", "oB"}

\* prisma relation Project -> Organization (project.organizationId)
ProjectOrg == [p \in {"pA", "pB"} |-> IF p = "pA" THEN "oA" ELSE "oB"]

\* prisma relation Matrix -> Project (matrix.projectId)
MatrixProject == [m \in {"mxA", "mxB"} |-> IF m = "mxA" THEN "pA" ELSE "pB"]

MatrixIds == DOMAIN MatrixProject
MatrixInputs == MatrixIds \cup {Null}

RaciRoles == {"RESPONSIBLE", "ACCOUNTABLE", "CONSULTED", "INFORMED"}
MemberRoles == {"OWNER", "ADMIN", "MEMBER", "VIEWER"}
AccessLevels == {"VIEW", "EDIT", "ADMIN"}

\* the (userId, organizationId) pair is the unique key of a Member row; the
\* row identifier is modelled by that key
MemberId(userId, organizationId) == <<userId, organizationId>>

MemberIds == Users \X OrgIds

TaskIds == {"t1", "t2"}

(***************************************************************************)
(* Store lookups.                                                          *)
(***************************************************************************)
TaskOf(taskId) == CHOOSE t \in tasks : t.id = taskId

MemberOf(memberId) == CHOOSE m \in members : m.id = memberId

MatrixOf(matrixId) == CHOOSE m \in matrices : m.id = matrixId

MatrixOrg(matrixId) == ProjectOrg[MatrixOf(matrixId).projectId]

Live(rows) == {r \in rows : r.deletedAt = Null}

(***************************************************************************)
(* Audit sink.  sinkOk is whether db.auditLog.create succeeds; a failure   *)
(* is caught inside createAuditLog.  threw is what reaches the caller.     *)
(***************************************************************************)
\* faulty variant of createAuditLog: the sink's error is rethrown
CreateAuditLogRethrow(data, sinkOk) ==
  [threw |-> ~sinkOk,
   written |-> IF sinkOk THEN {data} ELSE {},
   failed |-> ~sinkOk]

CreateAuditLog(data, sinkOk) ==
  [threw |-> FALSE,
   written |-> IF sinkOk THEN {data} ELSE {},
   failed |-> ~sinkOk]

NoAudit == [threw |-> FALSE, written |-> {}, failed |-> FALSE]

AuditData(organizationId, userId, action, resourceType) ==
  [organizationId |-> organizationId, userId |-> userId,
   action |-> action, resourceType |-> resourceType]

(***************************************************************************)
(* Access resolution and the procedure pipeline.                           *)
(***************************************************************************)
\* faulty variant of verifyOrganizationAccess: the grant's accessLevel
\* overrides the role of the Member row
VerifyOrganizationAccessOverride(userId, organizationId) ==
  LET rows == {m \in members : m.userId = userId
                               /\ m.organizationId = organizationId}
      active == {m \in rows : m.status = "ACTIVE"}
  IN IF userId \in DOMAIN consultancyAccess
        /\ consultancyAccess[userId].canAccessAllOrgs
     THEN IF rows # {}
          THEN LET member == CHOOSE m \in rows : TRUE
               IN [ok |-> TRUE, code |-> "OK", memberId |-> member.id,
                   role |-> consultancyAccess[userId].accessLevel,
                   isConsultancyAccess |-> TRUE]
          ELSE [ok |-> TRUE, code |-> "OK", memberId |-> <<>>,
                role |-> consultancyAccess[userId].accessLevel,
                isConsultancyAccess |-> TRUE]
     ELSE IF active = {}
          THEN [ok |-> FALSE, code |-> "FORBIDDEN", memberId |-> <<>>,
                role |-> Null, isConsultancyAccess |-> FALSE]
          ELSE LET member == CHOOSE m \in active : TRUE
               IN [ok |-> TRUE, code |-> "OK", memberId |-> member.id,
                   role |-> member.role, isConsultancyAccess |-> FALSE]

VerifyOrganizationAccess(userId, organizationId) ==
  LET rows == {m \in members : m.userId = userId
                               /\ m.organizationId = organizationId}
      active == {m \in rows : m.status = "ACTIVE"}
  IN IF userId \in DOMAIN consultancyAccess
        /\ consultancyAccess[userId].canAccessAllOrgs
     THEN IF rows # {}
          THEN LET member == CHOOSE m \in rows : TRUE
               IN [ok |-> TRUE, code |-> "OK", memberId |-> member.id,
                   role |-> member.role, isConsultancyAccess |-> TRUE]
          ELSE [ok |-> TRUE, code |-> "OK", memberId |-> <<>>,
                role |-> consultancyAccess[userId].accessLevel,
                isConsultancyAccess |-> TRUE]
     ELSE IF active = {}
          THEN [ok |-> FALSE, code |-> "FORBIDDEN", memberId |-> <<>>,
                role |-> Null, isConsultancyAccess |-> FALSE]
          ELSE LET member == CHOOSE m \in active : TRUE
               IN [ok |-> TRUE, code |-> "OK", memberId |-> member.id,
                   role |-> member.role, isConsultancyAccess |-> FALSE]

Denied(code) ==
  [ok |-> FALSE, code |-> code, userId |-> Null, organizationId |-> Null,
   memberId |-> <<>>, memberRole |-> Null, isConsultancyAccess |-> FALSE]

Granted(userId, organizationId, access) ==
  [ok |-> TRUE, code |-> "OK", userId |-> userId,
   organizationId |-> organizationId, memberId |-> access.memberId,
   memberRole |-> access.role,
   isConsultancyAccess |-> access.isConsultancyAccess]

ProtectedProcedure(session) ==
  IF session = NoSession THEN Denied("UNAUTHORIZED")
  ELSE [Denied("OK") EXCEPT !.ok = TRUE, !.userId = session]

OrganizationProcedure(session, organizationId) ==
  LET ctx == ProtectedProcedure(session)
  IN IF ~ctx.ok THEN ctx
     ELSE IF organizationId = Null THEN Denied("BAD_REQUEST")
     ELSE LET access == VerifyOrganizationAccess(ctx.userId, organizationId)
          IN IF ~access.ok THEN Denied(access.code)
             ELSE Granted(ctx.userId, organizationId, access)

MatrixProcedure(session, matrixId) ==
  LET ctx == ProtectedProcedure(session)
  IN IF ~ctx.ok THEN ctx
     ELSE IF matrixId = Null THEN Denied("BAD_REQUEST")
     ELSE IF \A m \in matrices : m.id # matrixId THEN Denied("NOT_FOUND")
     ELSE LET access == VerifyOrganizationAccess(ctx.userId,
                                                 MatrixOrg(matrixId))
          IN IF ~access.ok THEN Denied(access.code)
             ELSE Granted(ctx.userId, MatrixOrg(matrixId), access)

\* faulty variant of adminProcedure: MEMBER and EDIT pass the role gate
AdminProcedureLax(session, organizationId) ==
  LET ctx == OrganizationProcedure(session, organizationId)
  IN IF ~ctx.ok THEN ctx
     ELSE IF ctx.memberRole \notin {"ADMIN", "OWNER", "MEMBER", "EDIT"}
          THEN Denied("FORBIDDEN")
          ELSE ctx

AdminProcedure(session, organizationId) ==
  LET ctx == OrganizationProcedure(session, organizationId)
  IN IF ~ctx.ok THEN ctx
     ELSE IF ctx.memberRole \notin {"ADMIN", "OWNER"}
          THEN Denied("FORBIDDEN")
          ELSE ctx

(***************************************************************************)
(* RACI pre-commit validator.                                              *)
(***************************************************************************)
\* faulty variant of validateAssignment: soft-deleted assignments are read
\* as well
ValidateAssignmentAll(taskId, memberId, raciRole, excludeAssignmentId) ==
  LET existingAssignments ==
        {a \in assignments : /\ a.taskId = taskId
                             /\ a.id # excludeAssignmentId}
  IN IF raciRole \notin RaciRoles
     THEN [isValid |-> FALSE, error |-> "INVALID_ROLE"]
     ELSE IF \E a \in existingAssignments :
                a.memberId = memberId /\ a.raciRole = raciRole
     THEN [isValid |-> FALSE, error |-> "DUPLICATE"]
     ELSE IF raciRole = "ACCOUNTABLE"
             /\ \E a \in existingAssignments : a.raciRole = "ACCOUNTABLE"
     THEN [isValid |-> FALSE, error |-> "ALREADY_ACCOUNTABLE"]
     ELSE [isValid |-> TRUE, error |-> Null]

ValidateAssignment(taskId, memberId, raciRole, excludeAssignmentId) ==
  LET existingAssignments ==
        {a \in assignments : /\ a.taskId = taskId
                             /\ a.deletedAt = Null
                             /\ a.id # excludeAssignmentId}
  IN IF raciRole \notin RaciRoles
     THEN [isValid |-> FALSE, error |-> "INVALID_ROLE"]
     ELSE IF \E a \in existingAssignments :
                a.memberId = memberId /\ a.raciRole = raciRole
     THEN [isValid |-> FALSE, error |-> "DUPLICATE"]
     ELSE IF raciRole = "ACCOUNTABLE"
             /\ \E a \in existingAssignments : a.raciRole = "ACCOUNTABLE"
     THEN [isValid |-> FALSE, error |-> "ALREADY_ACCOUNTABLE"]
     ELSE [isValid |-> TRUE, error |-> Null]

(***************************************************************************)
(* Outcome of one API call: the store it leaves and the response.          *)
(***************************************************************************)
NoId == 0

Res(op, session, code, message, audit, returned) ==
  [op |-> op, session |-> session, code |-> code, message |-> message,
   audit |-> audit, returned |-> returned]

Outcome(orgs, mems, asgs, seq, res) ==
  [organizations |-> orgs, members |-> mems, matrices |-> matrices,
   tasks |-> tasks, assignments |-> asgs, assignmentSeq |-> seq,
   res |-> res]

Reject(op, session, code, message) ==
  Outcome(organizations, members, assignments, assignmentSeq,
          Res(op, session, code, message, NoAudit, {}))

\* the response once the commit is done: createAuditLog is awaited last, and
\* an exception escaping it would replace the result by an error
AfterAudit(op, session, audit, returned) ==
  IF audit.threw
  THEN Res(op, session, "INTERNAL_SERVER_ERROR", <<>>, audit, {})
  ELSE Res(op, session, "OK", <<>>, audit, returned)

\* the workload column of an assignment saved without a workload (null)
NoWorkload == -1

NewAssignment(id, matrixId, item) ==
  [id |-> id, matrixId |-> matrixId, taskId |-> item.taskId,
   memberId |-> item.memberId, raciRole |-> item.raciRole,
   workload |-> IF "workload" \in DOMAIN item THEN item.workload
                ELSE NoWorkload,
   deletedAt |-> Null]

(***************************************************************************)
(* Assignment router.                                                      *)
(***************************************************************************)
AssignmentCreate(session, input, sinkOk) ==
  LET ctx == MatrixProcedure(session, input.matrixId)
      op == "assignment.create"
  IN IF ~ctx.ok THEN Reject(op, session, ctx.code, <<>>)
     ELSE IF ~\E t \in tasks : /\ t.id = input.taskId
                               /\ t.matrixId = input.matrixId
                               /\ t.deletedAt = Null
     THEN Reject(op, session, "NOT_FOUND", <<"Task not found">>)
     ELSE IF ~\E m \in members : /\ m.id = input.memberId
                                 /\ m.organizationId = ctx.organizationId
     THEN Reject(op, session, "NOT_FOUND", <<"Member not found">>)
     ELSE LET validation == ValidateAssignment(input.taskId, input.memberId,
                                               input.raciRole, NoId)
          IN IF ~validation.isValid
             THEN Reject(op, session, "BAD_REQUEST",
                         <<validation.error>>)
             ELSE LET assignment == NewAssignment(assignmentSeq,
                                                  input.matrixId, input)
                      audit == CreateAuditLog(
                                 AuditData(ctx.organizationId, ctx.userId,
                                           "CREATE_ASSIGNMENT", "ASSIGNMENT"),
                                 sinkOk)
                  IN Outcome(organizations, members,
                             assignments \cup {assignment},
                             assignmentSeq + 1,
                             AfterAudit(op, session, audit,
                                        {assignment.id}))

AssignmentUpdate(session, input, sinkOk) ==
  LET ctx == MatrixProcedure(session, input.matrixId)
      op == "assignment.update"
      found == {a \in assignments : /\ a.id = input.assignmentId
                                    /\ a.matrixId = input.matrixId}
  IN IF ~ctx.ok THEN Reject(op, session, ctx.code, <<>>)
     ELSE IF found = {}
     THEN Reject(op, session, "NOT_FOUND", <<"Assignment not found">>)
     ELSE LET before == CHOOSE a \in found : TRUE
              changing == input.raciRole # Null
                          /\ input.raciRole # before.raciRole
              validation ==
                IF changing
                THEN ValidateAssignment(before.taskId, before.memberId,
                                        input.raciRole, input.assignmentId)
                ELSE [isValid |-> TRUE, error |-> Null]
          IN IF ~validation.isValid
             THEN Reject(op, session, "BAD_REQUEST",
                         <<validation.error>>)
             ELSE LET assignment ==
                        IF input.raciRole # Null
                        THEN [before EXCEPT !.raciRole = input.raciRole]
                        ELSE before
                      audit == CreateAuditLog(
                                 AuditData(ctx.organizationId, ctx.userId,
                                           "UPDATE_ASSIGNMENT", "ASSIGNMENT"),
                                 sinkOk)
                  IN Outcome(organizations, members,
                             (assignments \ {before}) \cup {assignment},
                             assignmentSeq,
                             AfterAudit(op, session, audit,
                                        {assignment.id}))

\* faulty variant of assignment.delete: the task's only live ACCOUNTABLE
\* cannot be removed
AssignmentDeleteGuarded(session, input, sinkOk) ==
  LET ctx == MatrixProcedure(session, input.matrixId)
      op == "assignment.delete"
      found == {a \in assignments : /\ a.id = input.assignmentId
                                    /\ a.matrixId = input.matrixId}
  IN IF ~ctx.ok THEN Reject(op, session, ctx.code, <<>>)
     ELSE IF found = {}
     THEN Reject(op, session, "NOT_FOUND", <<"Assignment not found">>)
     ELSE LET assignment == CHOOSE a \in found : TRUE
              deleted == [assignment EXCEPT !.deletedAt = Now]
              audit == CreateAuditLog(
                         AuditData(ctx.organizationId, ctx.userId,
                                   "DELETE_ASSIGNMENT", "ASSIGNMENT"),
                         sinkOk)
          IN IF /\ assignment.raciRole = "ACCOUNTABLE"
                /\ assignment.deletedAt = Null
                /\ \A a \in assignments :
                     (/\ a.taskId = assignment.taskId
                      /\ a.raciRole = "ACCOUNTABLE"
                      /\ a.deletedAt = Null) => a = assignment
             THEN Reject(op, session, "BAD_REQUEST",
                         <<"LAST_ACCOUNTABLE">>)
             ELSE Outcome(organizations, members,
                          (assignments \ {assignment}) \cup {deleted},
                          assignmentSeq,
                          AfterAudit(op, session, audit, {deleted.id}))

AssignmentDelete(session, input, sinkOk) ==
  LET ctx == MatrixProcedure(session, input.matrixId)
      op == "assignment.delete"
      found == {a \in assignments : /\ a.id = input.assignmentId
                                    /\ a.matrixId = input.matrixId}
  IN IF ~ctx.ok THEN Reject(op, session, ctx.code, <<>>)
     ELSE IF found = {}
     THEN Reject(op, session, "NOT_FOUND", <<"Assignment not found">>)
     ELSE LET assignment == CHOOSE a \in found : TRUE
              deleted == [assignment EXCEPT !.deletedAt = Now]
              audit == CreateAuditLog(
                         AuditData(ctx.organizationId, ctx.userId,
                                   "DELETE_ASSIGNMENT", "ASSIGNMENT"),
                         sinkOk)
          IN Outcome(organizations, members,
                     (assignments \ {assignment}) \cup {deleted},
                     assignmentSeq,
                     AfterAudit(op, session, audit, {deleted.id}))

\* the validation loop of bulkCreate: one line per rejected item, in order
ValidationErrors(items) ==
  LET line(item, validation) ==
        IF validation.isValid THEN <<>>
        ELSE << <<item.taskId, validation.error>> >>
      RECURSIVE collect(_)
      collect(i) ==
        IF i > Len(items) THEN <<>>
        ELSE line(items[i],
                  ValidateAssignment(items[i].taskId, items[i].memberId,
                                     items[i].raciRole, NoId))
               \o collect(i + 1)
  IN collect(1)

\* faulty variant of bulkCreate: the items that pass are written before the
\* batch is refused
AssignmentBulkCreatePartial(session, input, sinkOk) ==
  LET ctx == MatrixProcedure(session, input.matrixId)
      op == "assignment.bulkCreate"
      items == input.assignments
      validationErrors == ValidationErrors(items)
      passing == {i \in 1..Len(items) :
                    ValidateAssignment(items[i].taskId, items[i].memberId,
                                       items[i].raciRole, NoId).isValid}
      created == {NewAssignment(assignmentSeq + i - 1, input.matrixId,
                                items[i]) : i \in passing}
  IN IF ~ctx.ok THEN Reject(op, session, ctx.code, <<>>)
     ELSE Outcome(organizations, members, assignments \cup created,
                  assignmentSeq + Len(items),
                  IF Len(validationErrors) > 0
                  THEN Res(op, session, "BAD_REQUEST", validationErrors,
                           NoAudit, {})
                  ELSE AfterAudit(op, session,
                                  CreateAuditLog(
                                    AuditData(ctx.organizationId, ctx.userId,
                                              "BULK_ASSIGN", "ASSIGNMENT"),
                                    sinkOk),
                                  {a.id : a \in created}))

AssignmentBulkCreate(session, input, sinkOk) ==
  LET ctx == MatrixProcedure(session, input.matrixId)
      op == "assignment.bulkCreate"
      items == input.assignments
      created == {NewAssignment(assignmentSeq + i - 1, input.matrixId,
                                items[i]) : i \in 1..Len(items)}
      audit == CreateAuditLog(AuditData(ctx.organizationId, ctx.userId,
                                        "BULK_ASSIGN", "ASSIGNMENT"),
                              sinkOk)
      decide(validationErrors) ==
        IF Len(validationErrors) > 0
        THEN Reject(op, session, "BAD_REQUEST", validationErrors)
        ELSE Outcome(organizations, members, assignments \cup created,
                     assignmentSeq + Len(items),
                     AfterAudit(op, session, audit,
                                {a.id : a \in created}))
  IN IF ~ctx.ok THEN Reject(op, session, ctx.code, <<>>)
     ELSE decide(ValidationErrors(items))

(***************************************************************************)
(* Sequential requests against the assignment router.                      *)
(***************************************************************************)
Apply(out) ==
  /\ organizations' = out.organizations
  /\ members' = out.members
  /\ assignments' = out.assignments
  /\ assignmentSeq' = out.assignmentSeq
  /\ matrices' = out.matrices
  /\ tasks' = out.tasks
  /\ last' = out.res
  /\ UNCHANGED <<consultancyAccess, procs>>

NoCall == Res("none", NoSession, "OK", <<>>, NoAudit, {})

MemberRow(userId, organizationId, role, status) ==
  [id |-> MemberId(userId, organizationId), userId |-> userId,
   organizationId |-> organizationId, role |-> role, status |-> status]

TaskRow(id, matrixId) ==
  [id |-> id, matrixId |-> matrixId, parentTaskId |-> Null,
   status |-> "NOT_STARTED", deletedAt |-> Null]

MatrixRow(id, projectId) ==
  [id |-> id, projectId |-> projectId, name |-> "Plan",
   description |-> Null, version |-> 1, archivedAt |-> Null,
   deletedAt |-> Null]

SeedMatrices == {MatrixRow(m, MatrixProject[m]) : m \in MatrixIds}

OrganizationRow(id, name) ==
  [id |-> id, slug |-> id, name |-> name, archivedAt |-> Null]

(***************************************************************************)
(* Member router: the workload query.                                      *)
(***************************************************************************)
MemberGetWorkload(session, input) ==
  LET ctx == OrganizationProcedure(session, input.organizationId)
      op == "member.getWorkload"
      found == {a \in assignments :
                  /\ a.memberId = input.memberId
                  /\ a.deletedAt = Null
                  /\ \E t \in tasks : /\ t.id = a.taskId
                                      /\ t.deletedAt = Null
                                      /\ t.status # "COMPLETED"}
  IN IF ~ctx.ok THEN Reject(op, session, ctx.code, <<>>)
     ELSE Outcome(organizations, members, assignments, assignmentSeq,
                  Res(op, session, "OK", <<>>, NoAudit,
                      {a.id : a \in found}))

(***************************************************************************)
(* Organization router: create, update, archive.  The slug is unique among *)
(* organizations and stands for the generated row identifier.              *)
(***************************************************************************)
OrganizationCreate(session, input, sinkOk) ==
  LET ctx == ProtectedProcedure(session)
      op == "organization.create"
      existing == {o \in organizations : o.slug = input.slug}
      audit == CreateAuditLog(AuditData(input.slug, ctx.userId,
                                        "CREATE_ORGANIZATION",
                                        "ORGANIZATION"), sinkOk)
  IN IF ~ctx.ok THEN Reject(op, session, ctx.code, <<>>)
     ELSE IF existing # {} THEN Reject(op, session, "CONFLICT", <<>>)
     ELSE IF audit.threw
     THEN Outcome(organizations, members, assignments, assignmentSeq,
                  AfterAudit(op, session, audit, {}))
     ELSE Outcome(organizations
                    \cup {OrganizationRow(input.slug, input.name)},
                  members \cup {MemberRow(ctx.userId, input.slug,
                                          "OWNER", "ACTIVE")},
                  assignments, assignmentSeq,
                  AfterAudit(op, session, audit, {}))

OrganizationUpdate(session, input, sinkOk) ==
  LET ctx == AdminProcedure(session, input.organizationId)
      op == "organization.update"
      before == {o \in organizations : o.id = input.organizationId}
      audit == CreateAuditLog(AuditData(input.organizationId, ctx.userId,
                                        "UPDATE_ORGANIZATION",
                                        "ORGANIZATION"), sinkOk)
  IN IF ~ctx.ok THEN Reject(op, session, ctx.code, <<>>)
     ELSE IF before = {} THEN Reject(op, session, "NOT_FOUND", <<>>)
     ELSE Outcome({IF o \in before /\ input.name # Null
                   THEN [o EXCEPT !.name = input.name] ELSE o
                   : o \in organizations},
                  members, assignments, assignmentSeq,
                  AfterAudit(op, session, audit, {}))

OrganizationArchive(session, input, sinkOk) ==
  LET ctx == OrganizationProcedure(session, input.organizationId)
      op == "organization.archive"
      found == {o \in organizations : o.id = input.organizationId}
      audit == CreateAuditLog(AuditData(input.organizationId, ctx.userId,
                                        "ARCHIVE_ORGANIZATION",
                                        "ORGANIZATION"), sinkOk)
  IN IF ~ctx.ok THEN Reject(op, session, ctx.code, <<>>)
     ELSE IF ctx.memberRole # "OWNER"
     THEN Reject(op, session, "FORBIDDEN", <<>>)
     ELSE IF found = {}
     THEN Reject(op, session, "INTERNAL_SERVER_ERROR", <<>>)
     ELSE Outcome({IF o \in found THEN [o EXCEPT !.archivedAt = Now] ELSE o
                   : o \in organizations},
                  members, assignments, assignmentSeq,
                  AfterAudit(op, session, audit, {}))

(***************************************************************************)
(* Member router: create, update, remove.  A member row references its     *)
(* organization, so db.member.create fails when the organization is        *)
(* missing; db.member.delete cascades to the member's assignments.         *)
(***************************************************************************)
\* db.member.count({organizationId, role: 'OWNER', status: 'ACTIVE'})
OwnerCount(organizationId) ==
  Cardinality({m \in members : /\ m.organizationId = organizationId
                               /\ m.role = "OWNER"
                               /\ m.status = "ACTIVE"})

MemberCreate(session, input, sinkOk) ==
  LET ctx == AdminProcedure(session, input.organizationId)
      op == "member.create"
      existing == {m \in members :
                     /\ m.userId = input.userId
                     /\ m.organizationId = input.organizationId}
      audit == CreateAuditLog(AuditData(input.organizationId, ctx.userId,
                                        "CREATE_MEMBER", "MEMBER"), sinkOk)
  IN IF ~ctx.ok THEN Reject(op, session, ctx.code, <<>>)
     ELSE IF existing # {} THEN Reject(op, session, "CONFLICT", <<>>)
     ELSE IF \A o \in organizations : o.id # input.organizationId
     THEN Reject(op, session, "INTERNAL_SERVER_ERROR", <<>>)
     ELSE Outcome(organizations,
                  members \cup {MemberRow(input.userId,
                                          input.organizationId,
                                          input.role, "ACTIVE")},
                  assignments, assignmentSeq,
                  AfterAudit(op, session, audit, {}))

MemberUpdate(session, input, sinkOk) ==
  LET ctx == AdminProcedure(session, input.organizationId)
      op == "member.update"
      before == {m \in members :
                   /\ m.id = input.memberId
                   /\ m.organizationId = input.organizationId}
      audit == CreateAuditLog(AuditData(input.organizationId, ctx.userId,
                                        "UPDATE_MEMBER", "MEMBER"), sinkOk)
      after(m) ==
        [m EXCEPT !.role = IF input.role # Null THEN input.role ELSE @,
                  !.status = IF input.status # Null THEN input.status
                             ELSE @]
  IN IF ~ctx.ok THEN Reject(op, session, ctx.code, <<>>)
     ELSE IF before = {} THEN Reject(op, session, "NOT_FOUND", <<>>)
     ELSE IF /\ input.role # Null
             /\ input.role # "OWNER"
             /\ \E m \in before : m.role = "OWNER"
             /\ OwnerCount(input.organizationId) = 1
     THEN Reject(op, session, "FORBIDDEN", <<>>)
     ELSE Outcome(organizations,
                  {IF m \in before THEN after(m) ELSE m : m \in members},
                  assignments, assignmentSeq,
                  AfterAudit(op, session, audit, {}))

MemberRemove(session, input, sinkOk) ==
  LET ctx == AdminProcedure(session, input.organizationId)
      op == "member.remove"
      member == {m \in members :
                   /\ m.id = input.memberId
                   /\ m.organizationId = input.organizationId}
      audit == CreateAuditLog(AuditData(input.organizationId, ctx.userId,
                                        "REMOVE_MEMBER", "MEMBER"), sinkOk)
  IN IF ~ctx.ok THEN Reject(op, session, ctx.code, <<>>)
     ELSE IF member = {} THEN Reject(op, session, "NOT_FOUND", <<>>)
     ELSE IF /\ \E m \in member : m.role = "OWNER"
             /\ OwnerCount(input.organizationId) = 1
     THEN Reject(op, session, "FORBIDDEN", <<>>)
     ELSE Outcome(organizations, members \ member,
                  {a \in assignments : a.memberId # input.memberId},
                  assignmentSeq,
                  AfterAudit(op, session, audit, {}))

(***************************************************************************)
(* Requests.  A call names the operation, the session and the input.       *)
(***************************************************************************)
Call(op, session, input) == [op |-> op, session |-> session, input |-> input]

Handle(call, sinkOk) ==
  CASE call.op = "assignment.create" ->
         AssignmentCreate(call.session, call.input, sinkOk)
    [] call.op = "assignment.update" ->
         AssignmentUpdate(call.session, call.input, sinkOk)
    [] call.op = "assignment.delete" ->
         AssignmentDelete(call.session, call.input, sinkOk)
    [] call.op = "assignment.bulkCreate" ->
         AssignmentBulkCreate(call.session, call.input, sinkOk)
    [] call.op = "member.getWorkload" ->
         MemberGetWorkload(call.session, call.input)
    [] call.op = "organization.create" ->
         OrganizationCreate(call.session, call.input, sinkOk)
    [] call.op = "organization.update" ->
         OrganizationUpdate(call.session, call.input, sinkOk)
    [] call.op = "organization.archive" ->
         OrganizationArchive(call.session, call.input, sinkOk)
    [] call.op = "member.create" ->
         MemberCreate(call.session, call.input, sinkOk)
    [] call.op = "member.update" ->
         MemberUpdate(call.session, call.input, sinkOk)
    [] call.op = "member.remove" ->
         MemberRemove(call.session, call.input, sinkOk)

\* values the requests of the assignment router are drawn from
CallerInputs == Users

BulkCreateCallers == {"u1"}

RoleInputs == {"ACCOUNTABLE", "RESPONSIBLE"}

ItemInputs ==
  {[taskId |-> "t1", memberId |-> MemberId("u1", "oA"),
    raciRole |-> "ACCOUNTABLE"],
   [taskId |-> "t1", memberId |-> MemberId("u2", "oA"),
    raciRole |-> "ACCOUNTABLE"],
   [taskId |-> "t1", memberId |-> MemberId("u1", "oA"),
    raciRole |-> "RESPONSIBLE"],
   [taskId |-> "t2", memberId |-> MemberId("u2", "oB"),
    raciRole |-> "RESPONSIBLE"]}

RECURSIVE SeqsUpTo(_, _)
SeqsUpTo(S, n) ==
  IF n = 0 THEN {<<>>}
  ELSE LET shorter == SeqsUpTo(S, n - 1)
       IN shorter \cup {Append(q, x) : q \in {r \in shorter : Len(r) = n - 1},
                                       x \in S}

Batches == SeqsUpTo(ItemInputs, MaxBatch)

CreateCalls ==
  {Call("assignment.create", session,
        [matrixId |-> matrixId, taskId |-> item.taskId,
         memberId |-> item.memberId, raciRole |-> item.raciRole]) :
   session \in CallerInputs, matrixId \in MatrixIds, item \in ItemInputs}

UpdateCalls ==
  {Call("assignment.update", session,
        [matrixId |-> matrixId, assignmentId |-> assignmentId,
         raciRole |-> raciRole]) :
   session \in CallerInputs, matrixId \in MatrixIds,
   assignmentId \in 1..MaxAssignments, raciRole \in RoleInputs \cup {Null}}

DeleteCalls ==
  {Call("assignment.delete", session,
        [matrixId |-> matrixId, assignmentId |-> assignmentId]) :
   session \in CallerInputs, matrixId \in MatrixIds,
   assignmentId \in 1..MaxAssignments}

BulkCreateCalls ==
  {Call("assignment.bulkCreate", session,
        [matrixId |-> matrixId, assignments |-> items]) :
   session \in BulkCreateCallers, matrixId \in MatrixIds, items \in Batches}

GetWorkloadCalls ==
  {Call("member.getWorkload", session,
        [organizationId |-> organizationId, memberId |-> memberId]) :
   session \in CallerInputs, organizationId \in OrgIds,
   memberId \in {item.memberId : item \in ItemInputs}}

AssignmentCalls ==
  CreateCalls \cup UpdateCalls \cup DeleteCalls \cup BulkCreateCalls

Init ==
  /\ organizations = {OrganizationRow("oA", "Acme"),
                      OrganizationRow("oB", "Apex")}
  /\ members = {MemberRow("u1", "oA", "OWNER", "ACTIVE"),
                MemberRow("u2", "oA", "MEMBER", "ACTIVE"),
                MemberRow("u2", "oB", "OWNER", "ACTIVE")}
  /\ consultancyAccess = <<>>
  /\ matrices = SeedMatrices
  /\ tasks = {TaskRow("t1", "mxA"), TaskRow("t2", "mxB")}
  /\ assignments = {}
  /\ assignmentSeq = 1
  /\ last = NoCall
  /\ procs = <<>>

\* the audit sink is up or down when a call reaches createAuditLog; a call
\* that never reaches it has one outcome
SinkOutcomes(call) ==
  IF Handle(call, TRUE).res.audit.written = {} THEN {TRUE} ELSE BOOLEAN

\* a request is served; the identifier sequence is capped at MaxAssignments
Serve(out) ==
  /\ out.assignmentSeq <= MaxAssignments + 1
  /\ Apply(out)

Create ==
  \E call \in CreateCalls : \E sinkOk \in SinkOutcomes(call) :
    \E out \in {Handle(call, sinkOk)} : Serve(out)

Update ==
  \E call \in UpdateCalls : \E sinkOk \in SinkOutcomes(call) :
    \E out \in {Handle(call, sinkOk)} : Serve(out)

Delete ==
  \E call \in DeleteCalls : \E sinkOk \in SinkOutcomes(call) :
    \E out \in {Handle(call, sinkOk)} : Serve(out)

BulkCreate ==
  \E call \in BulkCreateCalls : \E sinkOk \in SinkOutcomes(call) :
    \E out \in {Handle(call, sinkOk)} : Serve(out)

GetWorkload ==
  \E call \in GetWorkloadCalls : \E out \in {Handle(call, TRUE)} : Serve(out)

Next == Create \/ Update \/ Delete \/ BulkCreate \/ GetWorkload

Spec == Init /\ [][Next]_vars

(***************************************************************************)
(* Properties of the assignment store.                                     *)
(***************************************************************************)
LiveOn(taskId) == {a \in assignments : a.taskId = taskId /\ a.deletedAt = Null}

\* C1: after any sequence of serial create, update, delete and bulkCreate
\* calls every task has at most one non-deleted ACCOUNTABLE assignment.
AtMostOneAccountable ==
  \A taskId \in TaskIds :
    Cardinality({a \in LiveOn(taskId) : a.raciRole = "ACCOUNTABLE"}) <= 1

\* C2: after any sequence of serial create, update, delete and bulkCreate
\* calls no two non-deleted assignments share (task, member, role).
NoDuplicateTriple ==
  \A a, b \in assignments :
    (/\ a.id # b.id
     /\ a.deletedAt = Null
     /\ b.deletedAt = Null
     /\ a.taskId = b.taskId
     /\ a.memberId = b.memberId) => a.raciRole # b.raciRole

\* C8: every assignment written under matrix M references a task of M and a
\* member of the organization owning M.
AssignmentInScope ==
  \A a \in assignments :
    /\ TaskOf(a.taskId).matrixId = a.matrixId
    /\ MemberOf(a.memberId).organizationId = MatrixOrg(a.matrixId)

\* the organization whose matrix holds the task of an assignment
TaskOrg(a) == MatrixOrg(TaskOf(a.taskId).matrixId)

HasAccess(session, organizationId) ==
  session \in Users /\ VerifyOrganizationAccess(session, organizationId).ok

\* C7: tenant isolation: a caller with no ACTIVE Member row in an
\* organization and no consultancy grant is never returned an assignment
\* of a matrix of that organization.
TenantIsolation ==
  \A a \in assignments :
    a.id \in last.returned => HasAccess(last.session, MatrixOrg(a.matrixId))

(***************************************************************************)
(* bulkCreate by a member of the organization against the stores that     *)
(* bulk writes and deletions reach; deletions also by an anonymous caller. *)
(***************************************************************************)
BulkCallers == {"u1", NoSession}

\* the items on task t1, and the batches made of them
TaskItems == {item \in ItemInputs : item.taskId = "t1"}

TaskBatches == SeqsUpTo(TaskItems, MaxBatch)

BulkCalls ==
  {Call("assignment.bulkCreate", session,
        [matrixId |-> "mxA", assignments |-> items]) :
   session \in BulkCreateCallers, items \in TaskBatches}

BulkDeleteCalls ==
  {Call("assignment.delete", session,
        [matrixId |-> "mxA", assignmentId |-> assignmentId]) :
   session \in BulkCallers, assignmentId \in 1..MaxAssignments}

BulkWrite ==
  \E call \in BulkCalls : \E sinkOk \in SinkOutcomes(call) :
    \E out \in {Handle(call, sinkOk)} : Serve(out)

BulkDelete ==
  \E call \in BulkDeleteCalls : \E sinkOk \in SinkOutcomes(call) :
    \E out \in {Handle(call, sinkOk)} : Serve(out)

NextBulk == BulkWrite \/ BulkDelete

SpecBulk == Init /\ [][NextBulk]_vars

\* the items of a batch that validateAssignment rejects in the current store
Rejected(items) ==
  {i \in 1..Len(items) :
     ~ValidateAssignment(items[i].taskId, items[i].memberId,
                         items[i].raciRole, NoId).isValid}

\* C4: bulkCreate is all-or-nothing: when validateAssignment rejects at
\* least one item the call fails with BAD_REQUEST, its message has one line
\* per rejected item naming the item's task, and no assignment is written.
BulkAllOrNothing ==
  \A call \in BulkCalls :
    \E items \in {call.input.assignments} : \E rejected \in {Rejected(items)} :
      (MatrixProcedure(call.session, call.input.matrixId).ok
       /\ rejected # {}) =>
        \A sinkOk \in BOOLEAN :
          \E out \in {Handle(call, sinkOk)} :
            /\ out.res.code = "BAD_REQUEST"
            /\ out.assignments = assignments
            /\ out.assignmentSeq = assignmentSeq
            /\ Len(out.res.message) = Cardinality(rejected)
            /\ \A i \in rejected :
                 \E k \in 1..Len(out.res.message) :
                   out.res.message[k][1] = items[i].taskId

\* a batch was refused while the store already held assignments
BulkRefused ==
  /\ last.op = "assignment.bulkCreate"
  /\ last.code = "BAD_REQUEST"
  /\ Len(last.message) >= 2
  /\ assignments # {}

(***************************************************************************)
(* Membership and organization administration, one request at a time.      *)
(* The organization is created through organization.create; the consultancy *)
(* grant of u2, if any, is fixed before the first request.                  *)
(***************************************************************************)
SlugInputs == {"oA"}

MemberCallers == Users

MemberRoleInputs == {"OWNER", "ADMIN", "MEMBER"}

StatusInputs == {"ACTIVE", "INACTIVE"}

Grants == [canAccessAllOrgs : BOOLEAN, accessLevel : AccessLevels]

MemberGrants ==
  {g \in Grants : g.canAccessAllOrgs /\ g.accessLevel \in {"EDIT", "ADMIN"}}

OrganizationCreateCalls ==
  {Call("organization.create", s, [slug |-> g, name |-> "Acme"]) :
     s \in Sessions, g \in SlugInputs}

OrganizationUpdateCalls ==
  {Call("organization.update", s,
        [organizationId |-> o, name |-> "Apex"]) :
     s \in MemberCallers, o \in SlugInputs}

OrganizationArchiveCalls ==
  {Call("organization.archive", s, [organizationId |-> o]) :
     s \in MemberCallers, o \in SlugInputs}

MemberCreateCalls ==
  {Call("member.create", s,
        [organizationId |-> o, userId |-> u, role |-> r]) :
     s \in MemberCallers, o \in SlugInputs, u \in Users,
     r \in MemberRoleInputs}

MemberUpdateCalls ==
  {Call("member.update", s,
        [organizationId |-> o, memberId |-> MemberId(u, o), role |-> r,
         status |-> st]) :
     s \in MemberCallers, o \in SlugInputs, u \in Users,
     r \in MemberRoleInputs \cup {Null}, st \in StatusInputs \cup {Null}}

MemberRemoveCalls ==
  {Call("member.remove", s,
        [organizationId |-> o, memberId |-> MemberId(u, o)]) :
     s \in MemberCallers, o \in SlugInputs, u \in Users}

InitMember ==
  /\ organizations = {}
  /\ members = {}
  /\ consultancyAccess \in {<<>>} \cup {[u \in {"u2"} |-> g] : g \in MemberGrants}
  /\ matrices = SeedMatrices
  /\ tasks = {TaskRow("t1", "mxA"), TaskRow("t2", "mxB")}
  /\ assignments = {}
  /\ assignmentSeq = 1
  /\ last = NoCall
  /\ procs = <<>>

CreateOrganization ==
  \E call \in OrganizationCreateCalls : \E sinkOk \in SinkOutcomes(call) :
    \E out \in {Handle(call, sinkOk)} : Serve(out)

UpdateOrganization ==
  \E call \in OrganizationUpdateCalls : \E sinkOk \in SinkOutcomes(call) :
    \E out \in {Handle(call, sinkOk)} : Serve(out)

ArchiveOrganization ==
  \E call \in OrganizationArchiveCalls : \E sinkOk \in SinkOutcomes(call) :
    \E out \in {Handle(call, sinkOk)} : Serve(out)

CreateMember ==
  \E call \in MemberCreateCalls : \E sinkOk \in SinkOutcomes(call) :
    \E out \in {Handle(call, sinkOk)} : Serve(out)

UpdateMember ==
  \E call \in MemberUpdateCalls : \E sinkOk \in SinkOutcomes(call) :
    \E out \in {Handle(call, sinkOk)} : Serve(out)

RemoveMember ==
  \E call \in MemberRemoveCalls : \E sinkOk \in SinkOutcomes(call) :
    \E out \in {Handle(call, sinkOk)} : Serve(out)

NextMember ==
  \/ CreateOrganization \/ UpdateOrganization \/ ArchiveOrganization
  \/ CreateMember \/ UpdateMember \/ RemoveMember

SpecMember == InitMember /\ [][NextMember]_vars

\* C5: an organization made by organization.create keeps at least one member
\* with role OWNER and status ACTIVE through every sequence of member.create,
\* member.update and member.remove calls.
OwnerRetained == \A o \in organizations : OwnerCount(o.id) >= 1

\* the role the pipeline resolves for the caller of a request, Null when the
\* caller is anonymous or has no access to the organization
ResolvedRole(call) ==
  IF call.session \notin Users THEN Null
  ELSE LET access == VerifyOrganizationAccess(call.session,
                                              call.input.organizationId)
       IN IF access.ok THEN access.role ELSE Null

\* the response is a success, or a stored row or an audit entry was written
Commits(out) ==
  \/ out.res.code = "OK"
  \/ out.organizations # organizations
  \/ out.members # members
  \/ out.assignments # assignments
  \/ out.res.audit.written # {}

AdminCalls ==
  MemberCreateCalls \cup MemberUpdateCalls \cup MemberRemoveCalls
    \cup OrganizationUpdateCalls \cup OrganizationArchiveCalls

AdminOps == {call.op : call \in AdminCalls}

\* C9: member.create, member.update, member.remove, organization.update and
\* organization.archive commit only when the caller's resolved role is ADMIN
\* or OWNER; with any other resolved role they answer FORBIDDEN and write
\* nothing.
AdminGate ==
  \A call \in AdminCalls : \A sinkOk \in BOOLEAN :
    \E out \in {Handle(call, sinkOk)} : \E role \in {ResolvedRole(call)} :
      /\ Commits(out) => role \in {"ADMIN", "OWNER"}
      /\ role \notin {"ADMIN", "OWNER", Null}
           => out.res.code = "FORBIDDEN" /\ ~Commits(out)

AdminRefused ==
  /\ last.op \in AdminOps
  /\ last.code = "FORBIDDEN"
  /\ last.session \in Users
  /\ \E o \in SlugInputs :
       /\ VerifyOrganizationAccess(last.session, o).ok
       /\ VerifyOrganizationAccess(last.session, o).role
            \in {"MEMBER", "EDIT"}

MutationCalls == AdminCalls \cup OrganizationCreateCalls \cup CreateCalls

\* C10: for every mutation, the call answers the same and leaves the same
\* stored rows whether the audit write succeeds or fails, and the failure
\* never reaches the caller.
AuditFailureHarmless ==
  \A call \in MutationCalls :
    \E up \in {Handle(call, TRUE)} : \E down \in {Handle(call, FALSE)} :
      /\ down.organizations = up.organizations
      /\ down.members = up.members
      /\ down.assignments = up.assignments
      /\ down.assignmentSeq = up.assignmentSeq
      /\ down.res.code = up.res.code
      /\ down.res.message = up.res.message
      /\ down.res.returned = up.res.returned
      /\ ~down.res.audit.threw

AuditFailureSwallowed ==
  /\ last.op \in AdminOps \cup {"organization.create"}
  /\ last.audit.failed
  /\ last.code = "OK"

(***************************************************************************)
(* Access resolution on its own: the Member row of u2 in oA and the grant  *)
(* of u2 are drawn from every combination, then the resolution is applied. *)
(***************************************************************************)
MemberRowInputs ==
  {{}} \cup {{MemberRow("u2", "oA", r, st)} :
               r \in MemberRoles, st \in StatusInputs}

InitAccess ==
  /\ organizations = {OrganizationRow("oA", "Acme"),
                      OrganizationRow("oB", "Apex")}
  /\ members \in MemberRowInputs
  /\ consultancyAccess \in {<<>>} \cup {[u \in {"u2"} |-> g] : g \in Grants}
  /\ matrices = SeedMatrices
  /\ tasks = {}
  /\ assignments = {}
  /\ assignmentSeq = 1
  /\ last = NoCall
  /\ procs = <<>>

ResolveAccess ==
  \E userId \in Users, organizationId \in OrgIds :
    \E access \in {VerifyOrganizationAccess(userId, organizationId)} :
      /\ last' = Res("verifyOrganizationAccess", userId, access.code, <<>>,
                     NoAudit, {access})
      /\ UNCHANGED <<organizations, members, consultancyAccess, matrices,
                     tasks, assignments, assignmentSeq, procs>>

NextAccess == ResolveAccess

SpecAccess == InitAccess /\ [][NextAccess]_vars

\* C6: with a consultancy grant that has canAccessAllOrgs the resolution
\* gives the role of the user's Member row when one exists, else the grant's
\* accessLevel with an empty memberId, flagged isConsultancyAccess; without
\* such a grant it gives the role of the ACTIVE Member row, not flagged, and
\* rejects with FORBIDDEN when there is no ACTIVE row.
AccessResolution ==
  \A userId \in Users, organizationId \in OrgIds :
    LET access == VerifyOrganizationAccess(userId, organizationId)
        grant == /\ userId \in DOMAIN consultancyAccess
                 /\ consultancyAccess[userId].canAccessAllOrgs
        rows == {m \in members : /\ m.userId = userId
                                 /\ m.organizationId = organizationId}
        active == {m \in rows : m.status = "ACTIVE"}
    IN /\ (grant /\ rows # {}) =>
            /\ access.ok /\ access.isConsultancyAccess
            /\ \E m \in rows : access.role = m.role /\ access.memberId = m.id
       /\ (grant /\ rows = {}) =>
            /\ access.ok /\ access.isConsultancyAccess
            /\ access.role = consultancyAccess[userId].accessLevel
            /\ access.memberId = <<>>
       /\ (~grant /\ active # {}) =>
            /\ access.ok /\ ~access.isConsultancyAccess
            /\ \E m \in active :
                 access.role = m.role /\ access.memberId = m.id
       /\ (~grant /\ active = {}) =>
            ~access.ok /\ access.code = "FORBIDDEN"

AccessViaInactiveRow ==
  /\ last.op = "verifyOrganizationAccess"
  /\ \E access \in last.returned :
       /\ access.isConsultancyAccess
       /\ access.memberId # <<>>
       /\ MemberOf(access.memberId).status = "INACTIVE"
       /\ MemberOf(access.memberId).role
            # consultancyAccess[last.session].accessLevel

(***************************************************************************)
(* Two assignment.create requests in flight at once.  Each request is a    *)
(* process that advances from one awaited store operation to the next;     *)
(* the store gives no serialization between them.                          *)
(***************************************************************************)
Procs == {"p1", "p2"}

Request(session, matrixId, item) ==
  [pc |-> "start", session |-> session, matrixId |-> matrixId,
   item |-> item, organizationId |-> Null, code |-> Null]

InitConc ==
  /\ organizations = {OrganizationRow("oA", "Acme"),
                      OrganizationRow("oB", "Apex")}
  /\ members = {MemberRow("u1", "oA", "OWNER", "ACTIVE"),
                MemberRow("u2", "oA", "MEMBER", "ACTIVE"),
                MemberRow("u2", "oB", "OWNER", "ACTIVE")}
  /\ consultancyAccess = <<>>
  /\ matrices = SeedMatrices
  /\ tasks = {TaskRow("t1", "mxA"), TaskRow("t2", "mxB")}
  /\ assignments = {}
  /\ assignmentSeq = 1
  /\ last = NoCall
  /\ procs \in [Procs -> {Request(s, "mxA", i) :
                            s \in Users, i \in TaskItems}]

Finish(p, code) == procs' = [procs EXCEPT ![p].pc = "done", ![p].code = code]

Goto(p, pc) == procs' = [procs EXCEPT ![p].pc = pc]

\* matrixProcedure middleware: resolves the matrix's organization and the
\* caller's access to it
Authorize(p) ==
  /\ procs[p].pc = "start"
  /\ LET ctx == MatrixProcedure(procs[p].session, procs[p].matrixId)
     IN IF ~ctx.ok THEN Finish(p, ctx.code)
        ELSE procs' = [procs EXCEPT ![p].pc = "task",
                                    ![p].organizationId = ctx.organizationId]
  /\ UNCHANGED <<organizations, members, consultancyAccess, matrices,
                 tasks, assignments, assignmentSeq, last>>

\* await ctx.db.task.findUnique
FindTask(p) ==
  /\ procs[p].pc = "task"
  /\ IF \E t \in Live(tasks) : /\ t.id = procs[p].item.taskId
                               /\ t.matrixId = procs[p].matrixId
     THEN Goto(p, "member")
     ELSE Finish(p, "NOT_FOUND")
  /\ UNCHANGED <<organizations, members, consultancyAccess, matrices,
                 tasks, assignments, assignmentSeq, last>>

\* await ctx.db.member.findUnique
FindMember(p) ==
  /\ procs[p].pc = "member"
  /\ IF \E m \in members : /\ m.id = procs[p].item.memberId
                           /\ m.organizationId = procs[p].organizationId
     THEN Goto(p, "validate")
     ELSE Finish(p, "NOT_FOUND")
  /\ UNCHANGED <<organizations, members, consultancyAccess, matrices,
                 tasks, assignments, assignmentSeq, last>>

\* await validateAssignment: one read of the task's assignments, decided on
\* that snapshot
Validate(p) ==
  /\ procs[p].pc = "validate"
  /\ IF ValidateAssignment(procs[p].item.taskId, procs[p].item.memberId,
                           procs[p].item.raciRole, NoId).isValid
     THEN Goto(p, "write")
     ELSE Finish(p, "BAD_REQUEST")
  /\ UNCHANGED <<organizations, members, consultancyAccess, matrices,
                 tasks, assignments, assignmentSeq, last>>

\* await ctx.db.assignment.create
Write(p) ==
  /\ procs[p].pc = "write"
  /\ assignments' = assignments
       \cup {NewAssignment(assignmentSeq, procs[p].matrixId, procs[p].item)}
  /\ assignmentSeq' = assignmentSeq + 1
  /\ Goto(p, "audit")
  /\ UNCHANGED <<organizations, members, consultancyAccess, matrices,
                 tasks, last>>

\* await createAuditLog, then the assignment is returned
Audit(p) ==
  /\ procs[p].pc = "audit"
  /\ \E sinkOk \in BOOLEAN :
       LET audit == CreateAuditLog(AuditData(procs[p].organizationId,
                                             procs[p].session,
                                             "CREATE_ASSIGNMENT",
                                             "ASSIGNMENT"), sinkOk)
       IN Finish(p, IF audit.threw THEN "INTERNAL_SERVER_ERROR" ELSE "OK")
  /\ UNCHANGED <<organizations, members, consultancyAccess, matrices,
                 tasks, assignments, assignmentSeq, last>>

NextConc ==
  \E p \in Procs :
    \/ Authorize(p) \/ FindTask(p) \/ FindMember(p)
    \/ Validate(p) \/ Write(p) \/ Audit(p)

SpecConc == InitConc /\ [][NextConc]_vars

\* C3: when two assignment.create requests for ACCOUNTABLE on the same task
\* interleave at their store reads and writes, at most one commits: once
\* both have finished the task has at most one non-deleted ACCOUNTABLE
\* assignment.
OneAccountableAfterRace ==
  (\A p \in Procs : procs[p].pc = "done")
    => \A taskId \in TaskIds :
         Cardinality({a \in LiveOn(taskId) : a.raciRole = "ACCOUNTABLE"}) <= 1

(***************************************************************************)
(* organization.create step by step.  The organization and its OWNER row   *)
(* are written inside a transaction and become visible at its commit;      *)
(* createAuditLog is called inside the transaction callback and writes     *)
(* through the global client, outside the transaction.  Two requests run,  *)
(* each with its own slug.                                                 *)
(***************************************************************************)
OrderSlugs == [p \in Procs |-> IF p = "p1" THEN {"oA", "oC"} ELSE {"oD"}]

CreateRequest(session, slug) ==
  [pc |-> "start", session |-> session, slug |-> slug,
   pendingOrganizations |-> {}, pendingMembers |-> {}, audit |-> NoAudit,
   code |-> Null]

InitOrder ==
  /\ organizations = {OrganizationRow("oA", "Acme"),
                      OrganizationRow("oB", "Apex")}
  /\ members = {MemberRow("u1", "oA", "OWNER", "ACTIVE")}
  /\ consultancyAccess = <<>>
  /\ matrices = SeedMatrices
  /\ tasks = {}
  /\ assignments = {}
  /\ assignmentSeq = 1
  /\ last = NoCall
  /\ procs \in {f \in [Procs -> {CreateRequest(s, g) :
                                   s \in Sessions, g \in {"oA", "oC", "oD"}}] :
                  \A p \in Procs : f[p].slug \in OrderSlugs[p]}

OrderStore == <<organizations, members>>

OrderRest == <<consultancyAccess, matrices, tasks, assignments,
               assignmentSeq, last>>

\* protectedProcedure
OrgAuthenticate(p) ==
  /\ procs[p].pc = "start"
  /\ LET ctx == ProtectedProcedure(procs[p].session)
     IN IF ~ctx.ok THEN Finish(p, ctx.code) ELSE Goto(p, "slug")
  /\ UNCHANGED <<OrderStore, OrderRest>>

\* await ctx.db.organization.findUnique({slug})
OrgCheckSlug(p) ==
  /\ procs[p].pc = "slug"
  /\ IF \E o \in organizations : o.slug = procs[p].slug
     THEN Finish(p, "CONFLICT")
     ELSE Goto(p, "organization")
  /\ UNCHANGED <<OrderStore, OrderRest>>

\* await tx.organization.create
OrgInsert(p) ==
  /\ procs[p].pc = "organization"
  /\ procs' = [procs EXCEPT
                 ![p].pc = "member",
                 ![p].pendingOrganizations =
                    {OrganizationRow(procs[p].slug, "Acme")}]
  /\ UNCHANGED <<OrderStore, OrderRest>>

\* await tx.member.create
OrgInsertOwner(p) ==
  /\ procs[p].pc = "member"
  /\ procs' = [procs EXCEPT
                 ![p].pc = "audit",
                 ![p].pendingMembers =
                    {MemberRow(procs[p].session, procs[p].slug,
                               "OWNER", "ACTIVE")}]
  /\ UNCHANGED <<OrderStore, OrderRest>>

\* await createAuditLog, still inside the transaction callback
OrgAudit(p) ==
  /\ procs[p].pc = "audit"
  /\ \E sinkOk \in BOOLEAN :
       procs' = [procs EXCEPT
                   ![p].pc = "commit",
                   ![p].audit =
                      CreateAuditLog(AuditData(procs[p].slug,
                                               procs[p].session,
                                               "CREATE_ORGANIZATION",
                                               "ORGANIZATION"), sinkOk)]
  /\ UNCHANGED <<OrderStore, OrderRest>>

\* the callback returns and the transaction commits
OrgCommit(p) ==
  /\ procs[p].pc = "commit"
  /\ organizations' = organizations \cup procs[p].pendingOrganizations
  /\ members' = members \cup procs[p].pendingMembers
  /\ Finish(p, "OK")
  /\ UNCHANGED OrderRest

NextOrder ==
  \E p \in Procs :
    \/ OrgAuthenticate(p) \/ OrgCheckSlug(p) \/ OrgInsert(p)
    \/ OrgInsertOwner(p) \/ OrgAudit(p) \/ OrgCommit(p)

SpecOrder == InitOrder /\ [][NextOrder]_vars

\* C11: in every mutation access resolution, validation, commit and audit
\* happen in that order: an audit record exists only for a write that has
\* been committed.
AuditAfterCommit ==
  \A p \in Procs :
    \A record \in procs[p].audit.written :
      \E o \in organizations : o.id = record.organizationId

(***************************************************************************)
(* Task router and matrix deletion, served one request at a time.          *)
(***************************************************************************)
MaxTasks == 3

\* an optional input field that is absent (undefined), as opposed to null
Undefined == "undefined"

\* identifiers the database hands to new task rows, in order
TaskIdPool == <<"t3", "t4", "t5", "t6", "t7">>

UnusedTaskIds == SelectSeq(TaskIdPool, LAMBDA id : \A t \in tasks : t.id # id)

WithTasks(rows, res) ==
  [Outcome(organizations, members, assignments, assignmentSeq, res)
     EXCEPT !.tasks = rows]

WithMatrices(rows, res) ==
  [Outcome(organizations, members, assignments, assignmentSeq, res)
     EXCEPT !.matrices = rows]

\* db.task.findUnique({ id, matrixId, deletedAt: null }) finds a row
ParentFound(parentTaskId, matrixId) ==
  \E t \in tasks : /\ t.id = parentTaskId
                   /\ t.matrixId = matrixId
                   /\ t.deletedAt = Null

TaskGetById(session, input) ==
  LET ctx == MatrixProcedure(session, input.matrixId)
      op == "task.getById"
      found == {t \in tasks : /\ t.id = input.taskId
                              /\ t.matrixId = input.matrixId}
  IN IF ~ctx.ok THEN Reject(op, session, ctx.code, <<>>)
     ELSE IF found = {}
     THEN Reject(op, session, "NOT_FOUND", <<"Task not found">>)
     ELSE Outcome(organizations, members, assignments, assignmentSeq,
                  Res(op, session, "OK", <<>>, NoAudit,
                      {t.id : t \in found}))

TaskCreate(session, input, sinkOk) ==
  LET ctx == MatrixProcedure(session, input.matrixId)
      op == "task.create"
  IN IF ~ctx.ok THEN Reject(op, session, ctx.code, <<>>)
     ELSE IF /\ input.parentTaskId # Null
             /\ ~ParentFound(input.parentTaskId, input.matrixId)
     THEN Reject(op, session, "BAD_REQUEST",
                 <<"Parent task not found or deleted">>)
     ELSE LET task == [TaskRow(UnusedTaskIds[1], input.matrixId)
                         EXCEPT !.parentTaskId = input.parentTaskId]
              audit == CreateAuditLog(
                         AuditData(ctx.organizationId, ctx.userId,
                                   "CREATE_TASK", "TASK"),
                         sinkOk)
          IN WithTasks(tasks \cup {task},
                       AfterAudit(op, session, audit, {task.id}))

TaskUpdate(session, input, sinkOk) ==
  LET ctx == MatrixProcedure(session, input.matrixId)
      op == "task.update"
      before == {t \in tasks : /\ t.id = input.taskId
                               /\ t.matrixId = input.matrixId}
  IN IF ~ctx.ok THEN Reject(op, session, ctx.code, <<>>)
     ELSE IF before = {}
     THEN Reject(op, session, "NOT_FOUND", <<"Task not found">>)
     ELSE IF /\ input.parentTaskId \notin {Undefined, Null}
             /\ input.parentTaskId = input.taskId
     THEN Reject(op, session, "BAD_REQUEST",
                 <<"Task cannot be its own parent">>)
     ELSE IF /\ input.parentTaskId \notin {Undefined, Null}
             /\ ~ParentFound(input.parentTaskId, input.matrixId)
     THEN Reject(op, session, "BAD_REQUEST",
                 <<"Parent task not found or deleted">>)
     ELSE LET updated ==
                {IF t.id # input.taskId THEN t
                 ELSE [t EXCEPT
                         !.parentTaskId = IF input.parentTaskId # Undefined
                                          THEN input.parentTaskId ELSE @,
                         !.status = IF input.status # Undefined
                                    THEN input.status ELSE @] :
               t \in tasks}
              audit == CreateAuditLog(
                         AuditData(ctx.organizationId, ctx.userId,
                                   "UPDATE_TASK", "TASK"),
                         sinkOk)
          IN WithTasks(updated,
                       AfterAudit(op, session, audit, {input.taskId}))

\* db.task.update({ where: { id, matrixId } }) throws when no row matches
TaskDelete(session, input, sinkOk) ==
  LET ctx == MatrixProcedure(session, input.matrixId)
      op == "task.delete"
  IN IF ~ctx.ok THEN Reject(op, session, ctx.code, <<>>)
     ELSE IF ~\E t \in tasks : /\ t.id = input.taskId
                               /\ t.matrixId = input.matrixId
     THEN Reject(op, session, "INTERNAL_SERVER_ERROR", <<>>)
     ELSE LET updated == {IF t.id = input.taskId
                          THEN [t EXCEPT !.deletedAt = Now]
                          ELSE t : t \in tasks}
              audit == CreateAuditLog(
                         AuditData(ctx.organizationId, ctx.userId,
                                   "DELETE_TASK", "TASK"),
                         sinkOk)
          IN WithTasks(updated,
                       AfterAudit(op, session, audit, {input.taskId}))

\* the handler creates the rows in one transaction and returns them; it
\* looks at no parent row and calls no audit sink
TaskBulkCreate(session, input) ==
  LET ctx == MatrixProcedure(session, input.matrixId)
      op == "task.bulkCreate"
      created == {[TaskRow(UnusedTaskIds[i], input.matrixId)
                     EXCEPT !.parentTaskId = input.tasks[i].parentTaskId] :
                  i \in 1..Len(input.tasks)}
  IN IF ~ctx.ok THEN Reject(op, session, ctx.code, <<>>)
     ELSE WithTasks(tasks \cup created,
                    Res(op, session, "OK", <<>>, NoAudit,
                        {t.id : t \in created}))

MatrixDelete(session, input, sinkOk) ==
  LET ctx == MatrixProcedure(session, input.matrixId)
      op == "matrix.delete"
  IN IF ~ctx.ok THEN Reject(op, session, ctx.code, <<>>)
     ELSE LET updated == {IF m.id = input.matrixId
                          THEN [m EXCEPT !.deletedAt = Now]
                          ELSE m : m \in matrices}
              audit == CreateAuditLog(
                         AuditData(ctx.organizationId, ctx.userId,
                                   "DELETE_MATRIX", "MATRIX"),
                         sinkOk)
          IN WithMatrices(updated,
                          AfterAudit(op, session, audit, {input.matrixId}))

HandleTask(call, sinkOk) ==
  CASE call.op = "task.getById" -> TaskGetById(call.session, call.input)
    [] call.op = "task.create" ->
         TaskCreate(call.session, call.input, sinkOk)
    [] call.op = "task.update" ->
         TaskUpdate(call.session, call.input, sinkOk)
    [] call.op = "task.delete" ->
         TaskDelete(call.session, call.input, sinkOk)
    [] call.op = "task.bulkCreate" ->
         TaskBulkCreate(call.session, call.input)
    [] call.op = "matrix.delete" ->
         MatrixDelete(call.session, call.input, sinkOk)

\* values the requests of the task router are drawn from
TaskCallers == Users

TaskIdInputs == {"t1", "t2", "t3"}

TaskBatchInputs ==
  {<<[parentTaskId |-> Null]>>,
   <<[parentTaskId |-> "t1"], [parentTaskId |-> Null]>>}

TaskGetByIdCalls ==
  {Call("task.getById", s, [matrixId |-> m, taskId |-> t]) :
     s \in TaskCallers, m \in MatrixIds, t \in TaskIdInputs}

TaskCreateCalls ==
  {Call("task.create", s, [matrixId |-> m, parentTaskId |-> parent]) :
     s \in TaskCallers, m \in MatrixIds, parent \in {Null, "t1"}}

TaskUpdateCalls ==
  {Call("task.update", s,
        [matrixId |-> m, taskId |-> t, parentTaskId |-> parent,
         status |-> Undefined]) :
     s \in TaskCallers, m \in MatrixIds, t \in TaskIdInputs,
     parent \in {Undefined, Null} \cup TaskIdInputs}

TaskDeleteCalls ==
  {Call("task.delete", s, [matrixId |-> m, taskId |-> t]) :
     s \in TaskCallers, m \in MatrixIds, t \in TaskIdInputs}

TaskBulkCreateCalls ==
  {Call("task.bulkCreate", s, [matrixId |-> m, tasks |-> batch]) :
     s \in TaskCallers, m \in MatrixIds, batch \in TaskBatchInputs}

MatrixDeleteCalls ==
  {Call("matrix.delete", s, [matrixId |-> m]) :
     s \in TaskCallers, m \in MatrixIds}

TaskSinkOutcomes(call) ==
  IF HandleTask(call, TRUE).res.audit.written = {} THEN {TRUE} ELSE BOOLEAN

\* a request is served; the number of task rows is capped at MaxTasks
ServeTask(out) ==
  /\ Cardinality(out.tasks) <= MaxTasks
  /\ Apply(out)

GetTask ==
  \E call \in TaskGetByIdCalls : \E out \in {HandleTask(call, TRUE)} :
    ServeTask(out)

CreateTask ==
  \E call \in TaskCreateCalls : \E sinkOk \in TaskSinkOutcomes(call) :
    \E out \in {HandleTask(call, sinkOk)} : ServeTask(out)

UpdateTask ==
  \E call \in TaskUpdateCalls : \E sinkOk \in TaskSinkOutcomes(call) :
    \E out \in {HandleTask(call, sinkOk)} : ServeTask(out)

DeleteTask ==
  \E call \in TaskDeleteCalls : \E sinkOk \in TaskSinkOutcomes(call) :
    \E out \in {HandleTask(call, sinkOk)} : ServeTask(out)

BulkCreateTasks ==
  \E call \in TaskBulkCreateCalls : \E out \in {HandleTask(call, TRUE)} :
    ServeTask(out)

DeleteMatrix ==
  \E call \in MatrixDeleteCalls : \E sinkOk \in TaskSinkOutcomes(call) :
    \E out \in {HandleTask(call, sinkOk)} : ServeTask(out)

NextTask ==
  \/ GetTask
  \/ CreateTask
  \/ UpdateTask
  \/ DeleteTask
  \/ BulkCreateTasks
  \/ DeleteMatrix

SpecTask == Init /\ [][NextTask]_vars

\* C12: every successful state-changing operation hands one record to the
\* audit sink: the response of a mutation that returned OK carries a record
\* that was written, or one the sink failed to store.
MutationOps ==
  {"task.create", "task.update", "task.delete", "task.bulkCreate",
   "matrix.delete"}

SuccessIsAudited ==
  (last.op \in MutationOps /\ last.code = "OK")
    => (Cardinality(last.audit.written) = 1 \/ last.audit.failed)


\* parent references followed upwards from a task, at most n steps
RECURSIVE AncestorsWithin(_, _)
AncestorsWithin(taskId, n) ==
  IF n = 0 \/ \A t \in tasks : t.id # taskId THEN {}
  ELSE IF TaskOf(taskId).parentTaskId = Null THEN {}
  ELSE {TaskOf(taskId).parentTaskId}
         \cup AncestorsWithin(TaskOf(taskId).parentTaskId, n - 1)

\* C14: the task parent relation is a forest: after any sequence of
\* task.create, task.bulkCreate and task.update calls no task is its own
\* ancestor through parent references.
ParentForest ==
  \A t \in tasks : t.id \notin AncestorsWithin(t.id, Cardinality(tasks))

MatrixScopedCalls ==
  TaskGetByIdCalls \cup TaskCreateCalls \cup TaskUpdateCalls
    \cup TaskDeleteCalls \cup TaskBulkCreateCalls \cup MatrixDeleteCalls

\* C15: once matrix.delete has set a matrix's deletion timestamp, every
\* matrix-scoped operation naming that matrix fails with NOT_FOUND and
\* changes nothing.
DeletedMatrixIsGone ==
  \A call \in MatrixScopedCalls :
    (\E m \in matrices : m.id = call.input.matrixId /\ m.deletedAt # Null)
      => \E out \in {HandleTask(call, TRUE)} :
           /\ out.res.code = "NOT_FOUND"
           /\ out.tasks = tasks
           /\ out.matrices = matrices
           /\ out.assignments = assignments

\* C16: once a task has been soft-deleted no query returns it: every task
\* that task.getById returns has no deletion timestamp.
ReturnedTaskIsLive ==
  (last.op = "task.getById" /\ last.code = "OK")
    => \A id \in last.returned : TaskOf(id).deletedAt = Null


(***************************************************************************)
(* Matrix router: create, update and duplicate, one request at a time.     *)
(***************************************************************************)
MaxMatrices == 3
MaxVersion == 3

\* identifiers the database hands to new matrix rows, in order
MatrixIdPool == <<"mx3", "mx4", "mx5", "mx6">>

UnusedMatrixIds ==
  SelectSeq(MatrixIdPool, LAMBDA id : \A m \in matrices : m.id # id)

\* the order in which findMany returns task rows
TaskIdOrder == <<"t1", "t2">> \o TaskIdPool

ProjectProcedure(session, projectId) ==
  LET ctx == ProtectedProcedure(session)
  IN IF ~ctx.ok THEN ctx
     ELSE IF projectId = Null THEN Denied("BAD_REQUEST")
     ELSE IF projectId \notin DOMAIN ProjectOrg THEN Denied("NOT_FOUND")
     ELSE LET access == VerifyOrganizationAccess(ctx.userId,
                                                 ProjectOrg[projectId])
          IN IF ~access.ok THEN Denied(access.code)
             ELSE Granted(ctx.userId, ProjectOrg[projectId], access)

MatrixCreate(session, input, sinkOk) ==
  LET ctx == ProjectProcedure(session, input.projectId)
      op == "matrix.create"
  IN IF ~ctx.ok THEN Reject(op, session, ctx.code, <<>>)
     ELSE LET matrix == [MatrixRow(UnusedMatrixIds[1], input.projectId)
                           EXCEPT !.name = input.name, !.version = 1]
              audit == CreateAuditLog(
                         AuditData(ctx.organizationId, ctx.userId,
                                   "CREATE_MATRIX", "MATRIX"),
                         sinkOk)
          IN WithMatrices(matrices \cup {matrix},
                          AfterAudit(op, session, audit, {matrix.id}))

\* faulty variant of matrix.update: the version moves only when a field is
\* supplied
MatrixUpdateWhenChanged(session, input, sinkOk) ==
  LET ctx == MatrixProcedure(session, input.matrixId)
      op == "matrix.update"
      changed == input.name # Undefined \/ input.description # Undefined
      updated ==
        {IF before.id # input.matrixId THEN before
         ELSE [before EXCEPT
                 !.name = IF input.name # Undefined
                          THEN input.name ELSE before.name,
                 !.description = IF input.description # Undefined
                                 THEN input.description
                                 ELSE before.description,
                 !.version = IF changed THEN before.version + 1
                             ELSE before.version] :
         before \in matrices}
      audit == CreateAuditLog(
                 AuditData(ctx.organizationId, ctx.userId,
                           "UPDATE_MATRIX", "MATRIX"),
                 sinkOk)
  IN IF ~ctx.ok THEN Reject(op, session, ctx.code, <<>>)
     ELSE WithMatrices(updated,
                       AfterAudit(op, session, audit, {input.matrixId}))

MatrixUpdate(session, input, sinkOk) ==
  LET ctx == MatrixProcedure(session, input.matrixId)
      op == "matrix.update"
      updated ==
        {IF before.id # input.matrixId THEN before
         ELSE [before EXCEPT
                 !.name = IF input.name # Undefined
                          THEN input.name ELSE before.name,
                 !.description = IF input.description # Undefined
                                 THEN input.description
                                 ELSE before.description,
                 !.version = before.version + 1] :
         before \in matrices}
      audit == CreateAuditLog(
                 AuditData(ctx.organizationId, ctx.userId,
                           "UPDATE_MATRIX", "MATRIX"),
                 sinkOk)
  IN IF ~ctx.ok THEN Reject(op, session, ctx.code, <<>>)
     ELSE WithMatrices(updated,
                       AfterAudit(op, session, audit, {input.matrixId}))

\* sourceMatrix.tasks: the live tasks of the matrix, in row order
SourceTasks(matrixId) ==
  SelectSeq(TaskIdOrder,
            LAMBDA id : \E t \in tasks : /\ t.id = id
                                         /\ t.matrixId = matrixId
                                         /\ t.deletedAt = Null)

\* sourceMatrix.assignments: the live assignments whose matrixId is the
\* matrix and whose task was copied, in row order
SourceAssignments(matrixId) ==
  SelectSeq([i \in 1..(assignmentSeq - 1) |-> i],
            LAMBDA i : \E a \in assignments :
                         /\ a.id = i
                         /\ a.matrixId = matrixId
                         /\ a.deletedAt = Null
                         /\ \E k \in 1..Len(SourceTasks(matrixId)) :
                              SourceTasks(matrixId)[k] = a.taskId)

AssignmentOf(id) == CHOOSE a \in assignments : a.id = id

MatrixDuplicate(session, input, sinkOk) ==
  LET ctx == MatrixProcedure(session, input.matrixId)
      op == "matrix.duplicate"
      sourceTasks == SourceTasks(input.matrixId)
      sourceAssignments == SourceAssignments(input.matrixId)
      newMatrix == [MatrixRow(UnusedMatrixIds[1],
                              MatrixOf(input.matrixId).projectId)
                      EXCEPT !.name = input.newName,
                             !.description =
                               MatrixOf(input.matrixId).description,
                             !.version = 1]
      taskMap(taskId) ==
        UnusedTaskIds[CHOOSE k \in 1..Len(sourceTasks) :
                        sourceTasks[k] = taskId]
      newTasks ==
        {[TaskRow(taskMap(sourceTasks[k]), newMatrix.id)
            EXCEPT !.status = TaskOf(sourceTasks[k]).status] :
         k \in 1..Len(sourceTasks)}
      newAssignments ==
        {[id |-> assignmentSeq + k - 1,
          matrixId |-> newMatrix.id,
          taskId |-> taskMap(AssignmentOf(sourceAssignments[k]).taskId),
          memberId |-> AssignmentOf(sourceAssignments[k]).memberId,
          raciRole |-> AssignmentOf(sourceAssignments[k]).raciRole,
          workload |-> AssignmentOf(sourceAssignments[k]).workload,
          deletedAt |-> Null] :
         k \in 1..Len(sourceAssignments)}
      audit == CreateAuditLog(
                 AuditData(ctx.organizationId, ctx.userId,
                           "CREATE_MATRIX", "MATRIX"),
                 sinkOk)
  IN IF ~ctx.ok THEN Reject(op, session, ctx.code, <<>>)
     ELSE [Outcome(organizations, members,
                   assignments \cup newAssignments,
                   assignmentSeq + Len(sourceAssignments),
                   AfterAudit(op, session, audit, {newMatrix.id}))
             EXCEPT !.matrices = matrices \cup {newMatrix},
                    !.tasks = tasks \cup newTasks]

HandleMatrix(call, sinkOk) ==
  CASE call.op = "matrix.create" ->
         MatrixCreate(call.session, call.input, sinkOk)
    [] call.op = "matrix.update" ->
         MatrixUpdate(call.session, call.input, sinkOk)
    [] call.op = "matrix.duplicate" ->
         MatrixDuplicate(call.session, call.input, sinkOk)

\* values the requests of the matrix router are drawn from
MatrixCallers == {"u1"}

MatrixIdInputs == {"mxA", "mx3"}

MatrixCreateCalls ==
  {Call("matrix.create", s, [projectId |-> p, name |-> "Plan"]) :
     s \in MatrixCallers, p \in DOMAIN ProjectOrg}

MatrixUpdateCalls ==
  {Call("matrix.update", s,
        [matrixId |-> m, name |-> name, description |-> description]) :
     s \in MatrixCallers, m \in MatrixIdInputs,
     name \in {Undefined, "Renamed"}, description \in {Undefined, "Revised"}}

MatrixDuplicateCalls ==
  {Call("matrix.duplicate", s, [matrixId |-> m, newName |-> "Copy"]) :
     s \in MatrixCallers, m \in MatrixIdInputs}

MatrixSinkOutcomes(call) ==
  IF HandleMatrix(call, TRUE).res.audit.written = {} THEN {TRUE} ELSE BOOLEAN

\* a request is served; rows and version numbers are capped
ServeMatrix(out) ==
  /\ Cardinality(out.matrices) <= MaxMatrices
  /\ Cardinality(out.tasks) <= MaxTasks
  /\ out.assignmentSeq <= MaxAssignments + 1
  /\ \A m \in out.matrices : m.version <= MaxVersion
  /\ Apply(out)

CreateMatrix ==
  \E call \in MatrixCreateCalls : \E sinkOk \in MatrixSinkOutcomes(call) :
    \E out \in {HandleMatrix(call, sinkOk)} : ServeMatrix(out)

UpdateMatrix ==
  \E call \in MatrixUpdateCalls : \E sinkOk \in MatrixSinkOutcomes(call) :
    \E out \in {HandleMatrix(call, sinkOk)} : ServeMatrix(out)

DuplicateMatrix ==
  \E call \in MatrixDuplicateCalls : \E sinkOk \in MatrixSinkOutcomes(call) :
    \E out \in {HandleMatrix(call, sinkOk)} : ServeMatrix(out)

NextVersion == CreateMatrix \/ UpdateMatrix \/ DuplicateMatrix

SpecVersion == Init /\ [][NextVersion]_vars

\* the version of every matrix row, by identifier
Versions(rows) == {<<m.id, m.version>> : m \in rows}

\* C13: for calls served one after the other, every successful matrix.update
\* sets the version of the matrix it names to its previous value plus 1,
\* whichever of name and description are supplied, and leaves the version of
\* every other matrix alone; a new matrix starts at version 1, and no step
\* lowers a version.
VersionStepsByOne ==
  /\ [](\A call \in MatrixUpdateCalls : \A sinkOk \in BOOLEAN :
          \E out \in {HandleMatrix(call, sinkOk)} :
            out.res.code = "OK" =>
              Versions(out.matrices) =
                {<<m.id, IF m.id = call.input.matrixId
                         THEN m.version + 1 ELSE m.version>> :
                 m \in matrices})
  /\ [][/\ \A m \in matrices : \E n \in matrices' :
             n.id = m.id /\ n.version >= m.version
        /\ \A n \in matrices' :
             (\A m \in matrices : m.id # n.id) => n.version = 1
        /\ (last'.op = "matrix.update" /\ last'.code = "OK")
             => \A id \in last'.returned :
                  \E m \in matrices : \E n \in matrices' :
                    m.id = id /\ n.id = id /\ n.version = m.version + 1]_vars

\* a matrix.update that supplied neither name nor description succeeded and
\* the matrix it names is at version 2
VersionBumpedWithoutFields ==
  /\ last.op = "matrix.update"
  /\ last.code = "OK"
  /\ \E m \in matrices : /\ m.id \in last.returned
                         /\ m.version = 2
                         /\ m.name = "Plan"
                         /\ m.description = Null


(***************************************************************************)
(* RACI findings of a task, and the validators applied to stores drawn     *)
(* from bounded sets of assignment rows.                                   *)
(***************************************************************************)
MaxLoaded == 2

Finding(taskId, code) == [taskId |-> taskId, code |-> code]

\* faulty variant of validateTaskAssignments: a warning makes the task
\* invalid
ValidateTaskAssignmentsStrict(task) ==
  LET loaded == task.assignments
      accountableCount ==
        Len(SelectSeq(loaded, LAMBDA a : a.raciRole = "ACCOUNTABLE"))
      responsibleCount ==
        Len(SelectSeq(loaded, LAMBDA a : a.raciRole = "RESPONSIBLE"))
      accountable ==
        IF accountableCount = 0
        THEN <<Finding(task.id, "NO_ACCOUNTABLE")>>
        ELSE IF accountableCount > 1
        THEN <<Finding(task.id, "MULTIPLE_ACCOUNTABLE")>>
        ELSE <<>>
      warnings ==
        IF responsibleCount = 0
        THEN <<Finding(task.id, "NO_RESPONSIBLE")>>
        ELSE <<>>
      seen(i) == \E j \in 1..(i - 1) :
                   /\ loaded[j].memberId = loaded[i].memberId
                   /\ loaded[j].raciRole = loaded[i].raciRole
      repeated == SelectSeq([i \in 1..Len(loaded) |-> i], seen)
      duplicates == [k \in 1..Len(repeated) |->
                       Finding(task.id, "DUPLICATE_ASSIGNMENT")]
      errors == accountable \o duplicates
  IN [isValid |-> errors = <<>> /\ warnings = <<>>,
      errors |-> errors,
      warnings |-> warnings]

ValidateTaskAssignments(task) ==
  LET loaded == task.assignments
      accountableCount ==
        Len(SelectSeq(loaded, LAMBDA a : a.raciRole = "ACCOUNTABLE"))
      responsibleCount ==
        Len(SelectSeq(loaded, LAMBDA a : a.raciRole = "RESPONSIBLE"))
      accountable ==
        IF accountableCount = 0
        THEN <<Finding(task.id, "NO_ACCOUNTABLE")>>
        ELSE IF accountableCount > 1
        THEN <<Finding(task.id, "MULTIPLE_ACCOUNTABLE")>>
        ELSE <<>>
      warnings ==
        IF responsibleCount = 0
        THEN <<Finding(task.id, "NO_RESPONSIBLE")>>
        ELSE <<>>
      seen(i) == \E j \in 1..(i - 1) :
                   /\ loaded[j].memberId = loaded[i].memberId
                   /\ loaded[j].raciRole = loaded[i].raciRole
      repeated == SelectSeq([i \in 1..Len(loaded) |-> i], seen)
      duplicates == [k \in 1..Len(repeated) |->
                       Finding(task.id, "DUPLICATE_ASSIGNMENT")]
      errors == accountable \o duplicates
  IN [isValid |-> errors = <<>>,
      errors |-> errors,
      warnings |-> warnings]

\* the largest identifier among assignment rows, 0 when there is none
LastId(rows) ==
  IF rows = {} THEN 0
  ELSE CHOOSE n \in {a.id : a \in rows} : \A a \in rows : a.id <= n

\* task.assignments with where: { deletedAt: null }, in row order, read
\* from the given assignment rows
LoadedFrom(taskId, rows) ==
  LET ids == SelectSeq([i \in 1..LastId(rows) |-> i],
                       LAMBDA i : \E a \in rows :
                                    /\ a.id = i
                                    /\ a.taskId = taskId
                                    /\ a.deletedAt = Null)
  IN [k \in 1..Len(ids) |-> CHOOSE a \in rows : a.id = ids[k]]

LoadedAssignments(taskId) == LoadedFrom(taskId, assignments)

LoadedTask(taskId) ==
  [id |-> taskId, assignments |-> LoadedAssignments(taskId)]

AssignmentValidateTask(session, input) ==
  LET ctx == MatrixProcedure(session, input.matrixId)
      op == "assignment.validateTask"
  IN IF ~ctx.ok THEN Reject(op, session, ctx.code, <<>>)
     ELSE IF ~\E t \in tasks : /\ t.id = input.taskId
                               /\ t.matrixId = input.matrixId
     THEN Reject(op, session, "NOT_FOUND", <<"Task not found">>)
     ELSE Outcome(organizations, members, assignments, assignmentSeq,
                  Res(op, session, "OK", <<>>, NoAudit,
                      ValidateTaskAssignments(LoadedTask(input.taskId))))

\* assignment rows the stores are built from
RowInputs ==
  [memberId : {MemberId("u1", "oA"), MemberId("u2", "oA")},
   raciRole : {"ACCOUNTABLE", "RESPONSIBLE", "CONSULTED"},
   deletedAt : {Null, Now}]

StoreOf(rows) ==
  {[id |-> i, matrixId |-> "mxA", taskId |-> "t1",
    memberId |-> rows[i].memberId, raciRole |-> rows[i].raciRole,
    deletedAt |-> rows[i].deletedAt] : i \in 1..Len(rows)}

InitValidate ==
  /\ organizations = {OrganizationRow("oA", "Acme"),
                      OrganizationRow("oB", "Apex")}
  /\ members = {MemberRow("u1", "oA", "OWNER", "ACTIVE"),
                MemberRow("u2", "oA", "MEMBER", "ACTIVE"),
                MemberRow("u2", "oB", "OWNER", "ACTIVE")}
  /\ consultancyAccess = <<>>
  /\ matrices = SeedMatrices
  /\ tasks = {TaskRow("t1", "mxA"), TaskRow("t2", "mxB")}
  /\ \E rows \in SeqsUpTo(RowInputs, MaxLoaded) :
       /\ assignments = StoreOf(rows)
       /\ assignmentSeq = Len(rows) + 1
  /\ last = NoCall
  /\ procs = <<>>

ValidateTaskCalls ==
  {Call("assignment.validateTask", s, [matrixId |-> m, taskId |-> t]) :
     s \in {"u1"}, m \in MatrixIds, t \in TaskIds}

\* arguments validateAssignment is applied to
ValidateAssignmentArgs ==
  [taskId : {"t1"},
   memberId : {MemberId("u1", "oA")},
   raciRole : RaciRoles,
   excludeAssignmentId : 0..MaxLoaded]

ValidateTask ==
  \E call \in ValidateTaskCalls :
    \E out \in {AssignmentValidateTask(call.session, call.input)} :
      Apply(out)

\* validateAssignment is applied and its verdict is kept as the response
CheckAssignment ==
  \E args \in ValidateAssignmentArgs :
    \E verdict \in {ValidateAssignment(args.taskId, args.memberId,
                                       args.raciRole,
                                       args.excludeAssignmentId)} :
      Apply(Outcome(organizations, members, assignments, assignmentSeq,
                    Res("validateAssignment", NoSession, "OK", <<>>,
                        NoAudit, verdict)))

NextValidate == ValidateTask \/ CheckAssignment

SpecValidate == InitValidate /\ [][NextValidate]_vars

Codes(findings) == {findings[i].code : i \in 1..Len(findings)}

LiveWithRole(taskId, raciRole) ==
  {a \in assignments : /\ a.taskId = taskId
                       /\ a.deletedAt = Null
                       /\ a.raciRole = raciRole}

\* C17: for every task with its loaded assignments, validateTaskAssignments
\* reports NO_ACCOUNTABLE iff there are 0 ACCOUNTABLE assignments,
\* MULTIPLE_ACCOUNTABLE iff there are more than 1 and neither iff there is
\* exactly 1; it warns NO_RESPONSIBLE iff there is no RESPONSIBLE assignment;
\* isValid is true iff the error list is empty; a task with no assignment
\* yields exactly the error NO_ACCOUNTABLE and the warning NO_RESPONSIBLE.
TaskFindings ==
  \A t \in tasks :
    \E result \in {ValidateTaskAssignments(LoadedTask(t.id))} :
      /\ ("NO_ACCOUNTABLE" \in Codes(result.errors))
           <=> (Cardinality(LiveWithRole(t.id, "ACCOUNTABLE")) = 0)
      /\ ("MULTIPLE_ACCOUNTABLE" \in Codes(result.errors))
           <=> (Cardinality(LiveWithRole(t.id, "ACCOUNTABLE")) > 1)
      /\ (Cardinality(LiveWithRole(t.id, "ACCOUNTABLE")) = 1)
           => Codes(result.errors) \subseteq {"DUPLICATE_ASSIGNMENT"}
      /\ (result.warnings = <<Finding(t.id, "NO_RESPONSIBLE")>>)
           <=> (LiveWithRole(t.id, "RESPONSIBLE") = {})
      /\ (result.warnings = <<>>)
           <=> (LiveWithRole(t.id, "RESPONSIBLE") # {})
      /\ result.isValid <=> (result.errors = <<>>)
      /\ (Len(LoadedAssignments(t.id)) = 0)
           => /\ result.errors = <<Finding(t.id, "NO_ACCOUNTABLE")>>
              /\ result.warnings = <<Finding(t.id, "NO_RESPONSIBLE")>>
      /\ (last.op = "assignment.validateTask" /\ last.code = "OK")
           => \E u \in tasks :
                last.returned = ValidateTaskAssignments(LoadedTask(u.id))

\* assignment.validateTask answered for a task that has only a live
\* CONSULTED assignment and a soft-deleted one: one error, one warning
FindingsOfBareTask ==
  /\ last.op = "assignment.validateTask"
  /\ last.code = "OK"
  /\ last.returned.errors = <<Finding("t1", "NO_ACCOUNTABLE")>>
  /\ last.returned.warnings = <<Finding("t1", "NO_RESPONSIBLE")>>
  /\ ~last.returned.isValid
  /\ \E a \in assignments : a.taskId = "t1" /\ a.deletedAt # Null
  /\ \E a \in assignments : /\ a.taskId = "t1"
                            /\ a.deletedAt = Null
                            /\ a.raciRole = "CONSULTED"

\* the verdict the claim prescribes, read off the store
Blocking(args) ==
  {a \in assignments :
     /\ a.taskId = args.taskId
     /\ a.deletedAt = Null
     /\ a.id # args.excludeAssignmentId
     /\ \/ a.memberId = args.memberId /\ a.raciRole = args.raciRole
        \/ args.raciRole = "ACCOUNTABLE" /\ a.raciRole = "ACCOUNTABLE"}

Verdict(args) ==
  ValidateAssignment(args.taskId, args.memberId, args.raciRole,
                     args.excludeAssignmentId)

GateItems ==
  {[taskId |-> "t1", memberId |-> MemberId("u1", "oA"), raciRole |-> r] :
     r \in RaciRoles}
    \cup {[taskId |-> "t1", memberId |-> MemberId("u2", "oA"),
           raciRole |-> "ACCOUNTABLE"]}

GateCreateCalls ==
  {Call("assignment.create", "u1",
        [matrixId |-> "mxA", taskId |-> item.taskId,
         memberId |-> item.memberId, raciRole |-> item.raciRole]) :
   item \in GateItems}

GateDeleteCalls ==
  {Call("assignment.delete", "u1",
        [matrixId |-> "mxA", assignmentId |-> assignmentId]) :
   assignmentId \in 1..MaxAssignments}

GateCreate ==
  \E call \in GateCreateCalls : \E sinkOk \in SinkOutcomes(call) :
    \E out \in {Handle(call, sinkOk)} : Serve(out)

GateDelete ==
  \E call \in GateDeleteCalls : \E sinkOk \in SinkOutcomes(call) :
    \E out \in {Handle(call, sinkOk)} : Serve(out)

NextGate == GateCreate \/ GateDelete

SpecGate == Init /\ [][NextGate]_vars

ValidateMatrixIn(matrixId, taskRows, assignmentRows) ==
  LET ids == SelectSeq(TaskIdOrder,
                       LAMBDA id : \E t \in taskRows :
                                     /\ t.id = id
                                     /\ t.matrixId = matrixId
                                     /\ t.deletedAt = Null)
      RECURSIVE collect(_)
      collect(k) ==
        IF k > Len(ids) THEN [errors |-> <<>>, warnings |-> <<>>]
        ELSE LET taskValidation ==
                   ValidateTaskAssignments(
                     [id |-> ids[k],
                      assignments |-> LoadedFrom(ids[k], assignmentRows)])
                 rest == collect(k + 1)
             IN [errors |-> taskValidation.errors \o rest.errors,
                 warnings |-> taskValidation.warnings \o rest.warnings]
      found == collect(1)
  IN [isValid |-> found.errors = <<>>,
      errors |-> found.errors,
      warnings |-> found.warnings]

ValidateMatrix(matrixId) == ValidateMatrixIn(matrixId, tasks, assignments)

MatrixValidate(session, input) ==
  LET ctx == MatrixProcedure(session, input.matrixId)
      op == "matrix.validate"
  IN IF ~ctx.ok THEN Reject(op, session, ctx.code, <<>>)
     ELSE Outcome(organizations, members, assignments, assignmentSeq,
                  Res(op, session, "OK", <<>>, NoAudit,
                      ValidateMatrix(input.matrixId)))

CopyCalls ==
  {Call("matrix.duplicate", s, [matrixId |-> m, newName |-> "Copy"]) :
     s \in Users, m \in MatrixIds}

MatrixValidateCalls ==
  {Call("matrix.validate", s, [matrixId |-> m]) :
     s \in Users, m \in MatrixIds \cup {"mx3"}}

CopyMatrix ==
  \E call \in CopyCalls : \E sinkOk \in MatrixSinkOutcomes(call) :
    \E out \in {HandleMatrix(call, sinkOk)} : ServeMatrix(out)

ValidateCopy ==
  \E call \in MatrixValidateCalls :
    \E out \in {MatrixValidate(call.session, call.input)} : Apply(out)

NextDuplicate == BulkCreate \/ CopyMatrix \/ ValidateCopy

SpecDuplicate == Init /\ [][NextDuplicate]_vars

\* the codes of the findings, task after task, without the identifiers
FindingCodes(result) ==
  <<[i \in 1..Len(result.errors) |-> result.errors[i].code],
    [i \in 1..Len(result.warnings) |-> result.warnings[i].code]>>

\* C20: matrix.duplicate followed by validateMatrix on the duplicate yields
\* the findings of validateMatrix on the source, task for task, and the
\* duplication leaves the source matrix, its tasks and its assignments
\* as they were.
DuplicateKeepsFindings ==
  \A call \in CopyCalls :
    \E out \in {HandleMatrix(call, TRUE)} :
      out.res.code = "OK" =>
        /\ \A copy \in out.res.returned :
             FindingCodes(ValidateMatrixIn(copy, out.tasks, out.assignments))
               = FindingCodes(ValidateMatrix(call.input.matrixId))
        /\ matrices \subseteq out.matrices
        /\ tasks \subseteq out.tasks
        /\ assignments \subseteq out.assignments


(***************************************************************************)
(* Analytics router, queried between task and assignment writes.           *)
(***************************************************************************)
\* Math.round(n / d * 100) for a count n and a positive count d
RoundedPercent(n, d) == (200 * n + d) \div (2 * d)

\* baseFilter / matrixFilter: a live row of a matrix of the organization,
\* of the given matrix when one is given
InFilter(row, organizationId, matrixId) ==
  /\ row.deletedAt = Null
  /\ \E m \in matrices : m.id = row.matrixId
  /\ MatrixOrg(row.matrixId) = organizationId
  /\ matrixId # Null => row.matrixId = matrixId

\* a.workload || 25
WorkloadOrDefault(a) ==
  IF a.workload = NoWorkload \/ a.workload = 0 THEN 25 ELSE a.workload

RECURSIVE TotalWorkload(_)
TotalWorkload(rows) ==
  IF rows = {} THEN 0
  ELSE LET a == CHOOSE r \in rows : TRUE
       IN WorkloadOrDefault(a) + TotalWorkload(rows \ {a})

ActiveMembers(organizationId) ==
  {m \in members : m.organizationId = organizationId /\ m.status = "ACTIVE"}

OrganizationAnalytics(organizationId, matrixId) ==
  LET taskCount ==
        Cardinality({t \in tasks : InFilter(t, organizationId, matrixId)})
      found ==
        {a \in assignments :
           /\ InFilter(a, organizationId, matrixId)
           /\ \E m \in members : m.id = a.memberId /\ m.status = "ACTIVE"}
      uniqueCompletedTasks ==
        Cardinality({a.taskId : a \in {b \in found :
                       TaskOf(b.taskId).status = "COMPLETED"}})
      memberWorkloads ==
        {TotalWorkload({a \in found : a.memberId = id}) :
           id \in {a.memberId : a \in found}}
  IN [totalTasks |-> taskCount,
      totalMembers |-> Cardinality(ActiveMembers(organizationId)),
      completionRate |-> IF taskCount > 0
                         THEN RoundedPercent(uniqueCompletedTasks, taskCount)
                         ELSE 0,
      overloadedMembers |->
        Cardinality({id \in {a.memberId : a \in found} :
                       TotalWorkload({a \in found : a.memberId = id}) > 80})]

CompletionMetrics(organizationId, matrixId) ==
  LET found == {t \in tasks : InFilter(t, organizationId, matrixId)}
      completedTasks ==
        Cardinality({t \in found : t.status = "COMPLETED"})
  IN [totalTasks |-> Cardinality(found),
      completedTasks |-> completedTasks,
      completionRate |-> IF Cardinality(found) > 0
                         THEN RoundedPercent(completedTasks,
                                             Cardinality(found))
                         ELSE 0]

\* the order in which findMany returns member rows
MemberOrder ==
  <<MemberId("u1", "oA"), MemberId("u2", "oA"),
    MemberId("u1", "oB"), MemberId("u2", "oB")>>

\* Array.prototype.sort with (a, b) => b.workloadPercentage -
\* a.workloadPercentage: a stable sort, largest first
RECURSIVE SortedByWorkload(_)
SortedByWorkload(rows) ==
  IF Len(rows) = 0 THEN <<>>
  ELSE LET first ==
             CHOOSE i \in 1..Len(rows) :
               /\ \A j \in 1..Len(rows) :
                    rows[j].workloadPercentage <= rows[i].workloadPercentage
               /\ \A j \in 1..(i - 1) :
                    rows[j].workloadPercentage < rows[i].workloadPercentage
       IN <<rows[first]>>
            \o SortedByWorkload([k \in 1..(Len(rows) - 1) |->
                                   IF k < first THEN rows[k]
                                   ELSE rows[k + 1]])

Bottlenecks(organizationId, matrixId, threshold) ==
  LET ids == SelectSeq(MemberOrder,
                       LAMBDA id : \E m \in ActiveMembers(organizationId) :
                                     m.id = id)
      mapped ==
        [k \in 1..Len(ids) |->
           [memberId |-> ids[k],
            workloadPercentage |->
              TotalWorkload({a \in assignments :
                               /\ a.memberId = ids[k]
                               /\ InFilter(a, organizationId, matrixId)})]]
  IN SortedByWorkload(
       SelectSeq(mapped, LAMBDA m : m.workloadPercentage > threshold))

\* the three queries behind organizationProcedure
AnalyticsQuery(op, session, input) ==
  LET ctx == OrganizationProcedure(session, input.organizationId)
  IN IF ~ctx.ok THEN Reject(op, session, ctx.code, <<>>)
     ELSE Outcome(organizations, members, assignments, assignmentSeq,
            Res(op, session, "OK", <<>>, NoAudit,
                CASE op = "analytics.getOrganizationAnalytics" ->
                       OrganizationAnalytics(input.organizationId,
                                             input.matrixId)
                  [] op = "analytics.getCompletionMetrics" ->
                       CompletionMetrics(input.organizationId,
                                         input.matrixId)
                  [] op = "analytics.getBottlenecks" ->
                       Bottlenecks(input.organizationId, input.matrixId,
                                   input.threshold)))

\* values the analytics requests and the writes between them are drawn from
AnalyticsScopes == [organizationId : {"oA"}, matrixId : {Null, "mxA"}]

ThresholdInputs == {0, 80}

WorkItems ==
  [taskId : {"t1", "t3"}, memberId : {MemberId("u1", "oA")},
   raciRole : {"RESPONSIBLE"}, workload : {NoWorkload, 0, 90}]

AssignWork ==
  \E item \in WorkItems :
    \E out \in {AssignmentCreate("u1", [matrixId |-> "mxA"] @@ item, TRUE)} :
      Serve(out)

AddTask ==
  \E out \in {TaskCreate("u1", [matrixId |-> "mxA", parentTaskId |-> Null],
                         TRUE)} :
    ServeTask(out)

CompleteTask ==
  \E t \in {"t1", "t3"} :
    \E out \in {TaskUpdate("u1", [matrixId |-> "mxA", taskId |-> t,
                                  parentTaskId |-> Undefined,
                                  status |-> "COMPLETED"], TRUE)} :
      ServeTask(out)

DropTask ==
  \E t \in {"t1", "t3"} :
    \E out \in {TaskDelete("u1", [matrixId |-> "mxA", taskId |-> t], TRUE)} :
      ServeTask(out)

QuerySummary ==
  \E s \in Users : \E input \in AnalyticsScopes :
    \E out \in {AnalyticsQuery("analytics.getOrganizationAnalytics", s,
                               input)} :
      Apply(out)

QueryCompletion ==
  \E s \in Users : \E input \in AnalyticsScopes :
    \E out \in {AnalyticsQuery("analytics.getCompletionMetrics", s, input)} :
      Apply(out)

QueryBottlenecks ==
  \E s \in Users : \E input \in AnalyticsScopes :
    \E threshold \in ThresholdInputs :
      \E out \in {AnalyticsQuery("analytics.getBottlenecks", s,
                                 input @@ [threshold |-> threshold])} :
        Apply(out)

NextAnalytics ==
  \/ AssignWork
  \/ AddTask
  \/ CompleteTask
  \/ DropTask
  \/ QuerySummary
  \/ QueryCompletion
  \/ QueryBottlenecks

SpecAnalytics == Init /\ [][NextAnalytics]_vars

\* C21: for every organization and optional matrix filter,
\* getOrganizationAnalytics returns a completionRate between 0 and 100, and
\* 0 when totalTasks is 0.
CompletionRateInRange ==
  \A input \in AnalyticsScopes :
    \E summary \in {OrganizationAnalytics(input.organizationId,
                                          input.matrixId)} :
      /\ summary.completionRate \in 0..100
      /\ summary.totalTasks = 0 => summary.completionRate = 0

\* C22: on the same store and for the same organization and matrix filter,
\* getCompletionMetrics and getOrganizationAnalytics return the same
\* completionRate.
CompletionRatesAgree ==
  \A input \in AnalyticsScopes :
    CompletionMetrics(input.organizationId, input.matrixId).completionRate
      = OrganizationAnalytics(input.organizationId,
                              input.matrixId).completionRate

\* the workload an assignment stands for: the recorded value, 25 when none
\* was recorded
RECURSIVE RecordedWorkload(_)
RecordedWorkload(rows) ==
  IF rows = {} THEN 0
  ELSE LET a == CHOOSE r \in rows : TRUE
       IN (IF a.workload = NoWorkload THEN 25 ELSE a.workload)
            + RecordedWorkload(rows \ {a})

MemberLoad(memberId, input) ==
  RecordedWorkload({a \in assignments :
                      /\ a.memberId = memberId
                      /\ InFilter(a, input.organizationId, input.matrixId)})

\* C23: getBottlenecks(threshold = T) lists exactly the ACTIVE members of
\* the organization whose summed workload in the scope is strictly greater
\* than T, by non-increasing workload.
BottlenecksAboveThreshold ==
  \A input \in AnalyticsScopes : \A threshold \in ThresholdInputs :
    \E listed \in {Bottlenecks(input.organizationId, input.matrixId,
                               threshold)} :
      /\ {listed[k].memberId : k \in 1..Len(listed)}
           = {m.id : m \in {n \in ActiveMembers(input.organizationId) :
                              MemberLoad(n.id, input) > threshold}}
      /\ \A k \in 1..(Len(listed) - 1) :
           listed[k].workloadPercentage >= listed[k + 1].workloadPercentage

\* C24: in the analytics aggregations an assignment contributes its
\* recorded workload when one was recorded, 0 included, and 25 only when
\* none was recorded: the workload getBottlenecks reports for a member is
\* the sum of these contributions.
RecordedWorkloadCounts ==
  \A input \in AnalyticsScopes :
    \E listed \in {Bottlenecks(input.organizationId, input.matrixId, 0)} :
      \A k \in 1..Len(listed) :
        listed[k].workloadPercentage
          = MemberLoad(listed[k].memberId, input)


\* C25: a member holds at most one RACI role per task: after any sequence
\* of assignment create, update, delete and bulkCreate calls no two
\* non-deleted assignments share the same task and member.
OneRolePerMember ==
  \A a, b \in Live(assignments) :
    (a.taskId = b.taskId /\ a.memberId = b.memberId) => a = b


(***************************************************************************)
(* Writes by a caller of any resolved role: the Member row of u2 in oA and *)
(* the grant of u2 are drawn from every combination.                       *)
(***************************************************************************)
InitViewer ==
  /\ organizations = {OrganizationRow("oA", "Acme"),
                      OrganizationRow("oB", "Apex")}
  /\ \E row \in MemberRowInputs :
       members = {MemberRow("u1", "oA", "OWNER", "ACTIVE")} \cup row
  /\ consultancyAccess \in {<<>>} \cup {[u \in {"u2"} |-> g] : g \in Grants}
  /\ matrices = SeedMatrices
  /\ tasks = {TaskRow("t1", "mxA")}
  /\ assignments = {}
  /\ assignmentSeq = 1
  /\ last = NoCall
  /\ procs = <<>>

ViewerAssign ==
  \E role \in RoleInputs : \E sinkOk \in BOOLEAN :
    \E out \in {AssignmentCreate("u2",
                  [matrixId |-> "mxA", taskId |-> "t1",
                   memberId |-> MemberId("u1", "oA"), raciRole |-> role],
                  sinkOk)} :
      ServeMatrix(out)

ViewerAddTask ==
  \E sinkOk \in BOOLEAN :
    \E out \in {TaskCreate("u2", [matrixId |-> "mxA",
                                  parentTaskId |-> Null], sinkOk)} :
      ServeMatrix(out)

ViewerRename ==
  \E sinkOk \in BOOLEAN :
    \E out \in {MatrixUpdate("u2", [matrixId |-> "mxA", name |-> "Renamed",
                                    description |-> Undefined], sinkOk)} :
      ServeMatrix(out)

NextViewer == ViewerAssign \/ ViewerAddTask \/ ViewerRename

SpecViewer == InitViewer /\ [][NextViewer]_vars

\* C27: every write path authorizes by role before committing: no task,
\* assignment or matrix mutation succeeds for a caller whose resolved role
\* is the lowest one, VIEWER from a Member row or VIEW from a consultancy
\* grant with no Member row.
WritesNeedRole ==
  (/\ last.op \in {"assignment.create", "task.create", "matrix.update"}
   /\ last.code = "OK")
    => VerifyOrganizationAccess(last.session, "oA").role
         \notin {"VIEWER", "VIEW"}


(***************************************************************************)
(* protectedProcedure in every runtime mode.  A request passes the         *)
(* middleware, which settles the identity the later stages see, and then   *)
(* the handler runs under that identity.                                   *)
(***************************************************************************)
\* process.env.NODE_ENV
NodeEnvs == {"production", "development", "test"}

\* the user db.user.findFirst({ email: 'sarah.chen@techcorp.com' }) finds,
\* Null when the row is not in the database
TestUsers == {Null, "u1"}

ProtectedProcedureIn(nodeEnv, testUser, session) ==
  IF nodeEnv = "development" /\ testUser # Null
  THEN [Denied("OK") EXCEPT !.ok = TRUE, !.userId = testUser]
  ELSE ProtectedProcedure(session)

ModeRequest(nodeEnv, testUser, session, parent) ==
  [pc |-> "start", nodeEnv |-> nodeEnv, testUser |-> testUser,
   session |-> session, userId |-> Null, code |-> Null,
   input |-> [matrixId |-> "mxA", parentTaskId |-> parent]]

InitMode ==
  /\ organizations = {OrganizationRow("oA", "Acme"),
                      OrganizationRow("oB", "Apex")}
  /\ members = {MemberRow("u1", "oA", "OWNER", "ACTIVE"),
                MemberRow("u2", "oA", "MEMBER", "ACTIVE"),
                MemberRow("u2", "oB", "OWNER", "ACTIVE")}
  /\ consultancyAccess = <<>>
  /\ matrices = SeedMatrices
  /\ tasks = {TaskRow("t1", "mxA")}
  /\ assignments = {}
  /\ assignmentSeq = 1
  /\ last = NoCall
  /\ \E nodeEnv \in NodeEnvs, testUser \in TestUsers :
       procs \in [Procs -> {ModeRequest(nodeEnv, testUser, s, parent) :
                              s \in Sessions, parent \in {Null, "t1"}}]

\* the protectedProcedure middleware
Protect(p) ==
  /\ procs[p].pc = "start"
  /\ LET ctx == ProtectedProcedureIn(procs[p].nodeEnv, procs[p].testUser,
                                     procs[p].session)
     IN IF ~ctx.ok THEN Finish(p, ctx.code)
        ELSE procs' = [procs EXCEPT ![p].pc = "handler",
                                    ![p].userId = ctx.userId]
  /\ UNCHANGED <<organizations, members, consultancyAccess, matrices, tasks,
                 assignments, assignmentSeq, last>>

\* next(): the later middleware and task.create run under ctx.session.user
RunHandler(p) ==
  /\ procs[p].pc = "handler"
  /\ \E sinkOk \in BOOLEAN :
       \E out \in {TaskCreate(procs[p].userId, procs[p].input, sinkOk)} :
         /\ tasks' = out.tasks
         /\ last' = out.res
         /\ Finish(p, out.res.code)
  /\ UNCHANGED <<organizations, members, consultancyAccess, matrices,
                 assignments, assignmentSeq>>

NextMode == \E p \in Procs : Protect(p) \/ RunHandler(p)

SpecMode == InitMode /\ [][NextMode]_vars

\* C26: in every runtime mode a request with no session identity ends with
\* UNAUTHORIZED at the protectedProcedure middleware, before any handler
\* runs, and the identity handed to the later stages is the caller's own
\* session user
SessionIdentityKept ==
  \A p \in Procs :
    procs[p].pc # "start" =>
      IF procs[p].session = NoSession
      THEN procs[p].pc = "done" /\ procs[p].code = "UNAUTHORIZED"
      ELSE procs[p].userId = procs[p].session


(***************************************************************************)
(* The matrix grid.  A cell shows the live assignment of its task and      *)
(* member; a click sends the next role of the cycle through                *)
(* handleAssignmentChange, and the grid is refetched from the store.       *)
(***************************************************************************)
\* const roleCycle = [null, R, A, C, I]
roleCycle == <<Null, "RESPONSIBLE", "ACCOUNTABLE", "CONSULTED", "INFORMED">>

CellStates == {roleCycle[i] : i \in 1..Len(roleCycle)}

\* roleCycle.indexOf(role), counted from 1
IndexOfRole(role) == CHOOSE i \in 1..Len(roleCycle) : roleCycle[i] = role

\* roleCycle[(currentIndex + 1) % roleCycle.length]
NextRole(currentRole) == roleCycle[(IndexOfRole(currentRole) % Len(roleCycle)) + 1]

\* task.assignments.find((a) => a.memberId === member.id), over the live
\* assignments task.list returns
CellAssignments(taskId, memberId) ==
  {a \in Live(assignments) : a.taskId = taskId /\ a.memberId = memberId}

CurrentRole(taskId, memberId) ==
  IF CellAssignments(taskId, memberId) = {} THEN Null
  ELSE (CHOOSE a \in CellAssignments(taskId, memberId) : TRUE).raciRole

HandleAssignmentChange(session, matrixId, taskId, memberId, role, sinkOk) ==
  LET found == CellAssignments(taskId, memberId)
  IN IF role = Null
     THEN AssignmentDelete(session,
                           [matrixId |-> matrixId,
                            assignmentId |-> (CHOOSE a \in found : TRUE).id],
                           sinkOk)
     ELSE IF found # {}
     THEN AssignmentUpdate(session,
                           [matrixId |-> matrixId,
                            assignmentId |-> (CHOOSE a \in found : TRUE).id,
                            raciRole |-> role],
                           sinkOk)
     ELSE AssignmentCreate(session,
                           [matrixId |-> matrixId, taskId |-> taskId,
                            memberId |-> memberId, raciRole |-> role],
                           sinkOk)

\* the cell the user clicks, and the assignment another member holds on the
\* same task
GridCells == [taskId : {"t1", "t3"},
              memberId : {MemberId("u1", "oA"), MemberId("u2", "oA")}]

OtherMember(memberId) ==
  IF memberId = MemberId("u1", "oA") THEN MemberId("u2", "oA")
  ELSE MemberId("u1", "oA")

InitGrid ==
  /\ organizations = {OrganizationRow("oA", "Acme"),
                      OrganizationRow("oB", "Apex")}
  /\ members = {MemberRow("u1", "oA", "OWNER", "ACTIVE"),
                MemberRow("u2", "oA", "MEMBER", "ACTIVE")}
  /\ consultancyAccess = <<>>
  /\ matrices = SeedMatrices
  /\ tasks = {TaskRow("t1", "mxA"), TaskRow("t3", "mxA")}
  /\ last = NoCall
  /\ procs \in GridCells
  /\ \E other \in CellStates :
       IF other = Null
       THEN assignments = {} /\ assignmentSeq = 1
       ELSE /\ assignments =
                 {NewAssignment(1, "mxA",
                                [taskId |-> procs.taskId,
                                 memberId |-> OtherMember(procs.memberId),
                                 raciRole |-> other])}
            /\ assignmentSeq = 2

\* RaciCell.handleClick, handleRoleChange and handleAssignmentChange
Click ==
  \E sinkOk \in BOOLEAN :
    \E out \in {HandleAssignmentChange(
                  "u1", "mxA", procs.taskId, procs.memberId,
                  NextRole(CurrentRole(procs.taskId, procs.memberId)),
                  sinkOk)} :
      Serve(out)

NextGrid == Click

\* the user keeps clicking the cell
SpecGrid == InitGrid /\ [][NextGrid]_vars /\ WF_vars(Click)

\* C28: whatever another member holds on the task, repeated clicks on a cell
\* eventually show each of the five cell states, Empty included
CellReachesEveryState ==
  \A state \in CellStates :
    <>(CurrentRole(procs.taskId, procs.memberId) = state)


(***************************************************************************)
(* Concurrent matrix.update requests on one matrix, one step per await.    *)
(***************************************************************************)
RenameRequest(session, name) ==
  [pc |-> "start", session |-> session, matrixId |-> "mxA", name |-> name,
   before |-> Null, code |-> Null]

InitRename ==
  /\ organizations = {OrganizationRow("oA", "Acme"),
                      OrganizationRow("oB", "Apex")}
  /\ members = {MemberRow("u1", "oA", "OWNER", "ACTIVE"),
                MemberRow("u2", "oA", "MEMBER", "ACTIVE")}
  /\ consultancyAccess = <<>>
  /\ matrices = SeedMatrices
  /\ tasks = {}
  /\ assignments = {}
  /\ assignmentSeq = 1
  /\ last = NoCall
  /\ procs \in [Procs -> {RenameRequest(s, n) :
                            s \in Sessions, n \in {Undefined, "Q", "R"}}]

RenameRest == <<organizations, members, consultancyAccess, tasks,
                assignments, assignmentSeq, last>>

\* matrixProcedure
RenameAuthorize(p) ==
  /\ procs[p].pc = "start"
  /\ LET ctx == MatrixProcedure(procs[p].session, procs[p].matrixId)
     IN IF ~ctx.ok THEN Finish(p, ctx.code) ELSE Goto(p, "find")
  /\ UNCHANGED <<matrices, RenameRest>>

\* const before = await ctx.db.matrix.findUnique
RenameFind(p) ==
  /\ procs[p].pc = "find"
  /\ IF \E m \in matrices : m.id = procs[p].matrixId
     THEN procs' = [procs EXCEPT ![p].pc = "update",
                                 ![p].before = MatrixOf(procs[p].matrixId)]
     ELSE Finish(p, "NOT_FOUND")
  /\ UNCHANGED <<matrices, RenameRest>>

\* await ctx.db.matrix.update({ data: { version: before.version + 1 } })
RenameWrite(p) ==
  /\ procs[p].pc = "update"
  /\ procs[p].before.version + 1 <= MaxVersion
  /\ matrices' =
       {IF m.id # procs[p].matrixId THEN m
        ELSE [m EXCEPT
                !.name = IF procs[p].name # Undefined
                         THEN procs[p].name ELSE @,
                !.version = procs[p].before.version + 1] :
        m \in matrices}
  /\ Goto(p, "audit")
  /\ UNCHANGED RenameRest

\* await createAuditLog; return matrix
RenameReturn(p) ==
  /\ procs[p].pc = "audit"
  /\ Finish(p, "OK")
  /\ UNCHANGED <<matrices, RenameRest>>

NextRename ==
  \E p \in Procs :
    RenameAuthorize(p) \/ RenameFind(p) \/ RenameWrite(p) \/ RenameReturn(p)

SpecRename == InitRename /\ [][NextRename]_vars

\* C29: however concurrent matrix.update requests on one matrix interleave,
\* no increment is lost: when the requests have returned, the version is the
\* initial version plus the number of requests that succeeded
NoLostIncrement ==
  (\A p \in Procs : procs[p].pc = "done") =>
    MatrixOf("mxA").version
      = 1 + Cardinality({p \in Procs : procs[p].code = "OK"})


(***************************************************************************)
(* Two concurrent admin requests, each demoting or removing a different    *)
(* one of the two owners of an organization, one step per await.           *)
(***************************************************************************)
OwnerRequest(op, session, memberId, role) ==
  [pc |-> "start", op |-> op, session |-> session, organizationId |-> "oA",
   memberId |-> memberId, role |-> role, ownerCount |-> 0, code |-> Null]

\* the owner each request is aimed at
OwnerTargets == [p \in Procs |-> IF p = "p1" THEN MemberId("u1", "oA")
                                 ELSE MemberId("u2", "oA")]

OwnerRequests(p) ==
  {OwnerRequest("member.update", s, OwnerTargets[p], r) :
     s \in Users, r \in MemberRoles \ {"OWNER"}}
    \cup {OwnerRequest("member.remove", s, OwnerTargets[p], Null) :
            s \in Users}

InitOwners ==
  /\ organizations = {OrganizationRow("oA", "Acme")}
  /\ members = {MemberRow("u1", "oA", "OWNER", "ACTIVE"),
                MemberRow("u2", "oA", "OWNER", "ACTIVE")}
  /\ consultancyAccess = <<>>
  /\ matrices = SeedMatrices
  /\ tasks = {}
  /\ assignments = {}
  /\ assignmentSeq = 1
  /\ last = NoCall
  /\ procs \in {f \in [Procs -> UNION {OwnerRequests(p) : p \in Procs}] :
                  \A p \in Procs : f[p] \in OwnerRequests(p)}

OwnersRest == <<organizations, consultancyAccess, matrices, tasks,
                assignmentSeq, last>>

\* adminProcedure
OwnerAuthorize(p) ==
  /\ procs[p].pc = "start"
  /\ LET ctx == AdminProcedure(procs[p].session, procs[p].organizationId)
     IN IF ~ctx.ok THEN Finish(p, ctx.code) ELSE Goto(p, "find")
  /\ UNCHANGED <<members, assignments, OwnersRest>>

\* await ctx.db.member.findUnique: the owner test that follows reads the
\* role of the row found
OwnerFind(p) ==
  /\ procs[p].pc = "find"
  /\ LET found == {m \in members :
                     /\ m.id = procs[p].memberId
                     /\ m.organizationId = procs[p].organizationId}
     IN IF found = {} THEN Finish(p, "NOT_FOUND")
        ELSE IF \E m \in found : m.role = "OWNER"
        THEN Goto(p, "count")
        ELSE Goto(p, "write")
  /\ UNCHANGED <<members, assignments, OwnersRest>>

\* const ownerCount = await ctx.db.member.count(...)
OwnerCountRead(p) ==
  /\ procs[p].pc = "count"
  /\ IF OwnerCount(procs[p].organizationId) = 1
     THEN Finish(p, "FORBIDDEN")
     ELSE procs' = [procs EXCEPT
                      ![p].pc = "write",
                      ![p].ownerCount = OwnerCount(procs[p].organizationId)]
  /\ UNCHANGED <<members, assignments, OwnersRest>>

\* await ctx.db.member.update / await ctx.db.member.delete, then the audit
\* log and the return
OwnerWrite(p) ==
  /\ procs[p].pc = "write"
  /\ IF ~\E m \in members : m.id = procs[p].memberId
     THEN /\ Finish(p, "INTERNAL_SERVER_ERROR")
          /\ UNCHANGED <<members, assignments>>
     ELSE /\ IF procs[p].op = "member.update"
             THEN /\ members' =
                       {IF m.id = procs[p].memberId
                        THEN [m EXCEPT !.role = procs[p].role]
                        ELSE m : m \in members}
                  /\ UNCHANGED assignments
             ELSE /\ members' = {m \in members : m.id # procs[p].memberId}
                  /\ assignments' = {a \in assignments :
                                       a.memberId # procs[p].memberId}
          /\ Finish(p, "OK")
  /\ UNCHANGED OwnersRest

NextOwners ==
  \E p \in Procs :
    OwnerAuthorize(p) \/ OwnerFind(p) \/ OwnerCountRead(p) \/ OwnerWrite(p)

SpecOwners == InitOwners /\ [][NextOwners]_vars

\* C30: with exactly two ACTIVE OWNERs and two concurrent requests, each
\* demoting or removing a different one of them, an ACTIVE OWNER remains
\* once both requests have returned
OwnerRemains ==
  (\A p \in Procs : procs[p].pc = "done") => OwnerCount("oA") >= 1

=============================================================================
